---- MODULE Spec2Model ----
(***************************************************************************)
(* BMAD-Studio backend: artifact store, story parser / plan builder and    *)
(* workflow resolver (apps/backend/bmad).                                  *)
(*                                                                         *)
(* Text is modelled as TLA+ strings, character by character: Python's      *)
(* str.strip, str.lstrip(chars), str.startswith, str.lower, str.splitlines, *)
(* str.rsplit and the text-mode newline translation of Path.read_text are  *)
(* operators over the characters of the string.                            *)
(***************************************************************************)
EXTENDS Naturals, Sequences, FiniteSets, TLC

VARIABLES
    \* ---- artifact store (artifacts.py): the spec directory
    files,               \* path (relative to spec_dir) -> text stored in the file
    dirs,                \* existing directories (paths relative to spec_dir)
    plan_file,           \* spec_dir/implementation_plan.json: NoFile or the plan
    op,                  \* the last call of the artifact API and what it returned
    \* ---- story parser (_parse_stories_from_markdown), one loop iteration a step
    content,             \* the argument `content`
    start_index,         \* the argument `start_index`
    lines,               \* content.splitlines()
    pos,                 \* number of lines the for loop has consumed
    subtasks,            \* the local list `subtasks`
    current_heading,
    current_body_lines,
    current_ac,
    in_ac_section,
    pc,                  \* "idle" | "loop" | "done"
    \* ---- workflow resolver (workflows.py)
    wfs,                 \* workflow source tree: directory path -> its entries
    workflow,            \* the last load_workflow call and its outcome
    got,                 \* the last get_instructions/get_checklist/get_template outcome
    \* ---- phase methods (bmad_phases.py) and the agents directory (personas.py)
    agents,              \* agents directory: agent file stem -> what the file holds
    phase_pc,            \* "idle" | "awaiting" (at run_agent_fn) | "returned" | "raised"
    attempt,             \* the loop variable `attempt` of the running phase method
    ph                   \* the other locals of the phase method, and how it ended

vars == <<files, dirs, plan_file, op,
          content, start_index, lines, pos, subtasks, current_heading,
          current_body_lines, current_ac, in_ac_section, pc,
          wfs, workflow, got, agents, phase_pc, attempt, ph>>

storeVars == <<files, dirs, plan_file, op>>
parseVars == <<content, start_index, lines, pos, subtasks, current_heading,
               current_body_lines, current_ac, in_ac_section, pc>>
wfVars    == <<wfs, workflow, got>>
phaseVars == <<agents, phase_pc, attempt, ph>>

-----------------------------------------------------------------------------
(* Python str primitives.                                                  *)

Ch(s, i) == SubSeq(s, i, i)

\* smallest / largest element of a non-empty set of numbers
Min(S) == CHOOSE i \in S : \A j \in S : i <= j
Max(S) == CHOOSE i \in S : \A j \in S : i >= j

\* positions of s whose character is not in cs
NotIn(s, cs) == {i \in 1..Len(s) : Ch(s, i) \notin cs}

\* str.lstrip(chars): drops every leading character that is in chars
LStripChars(s, cs) == IF NotIn(s, cs) = {} THEN "" ELSE SubSeq(s, Min(NotIn(s, cs)), Len(s))

\* str.rstrip(chars)
RStripChars(s, cs) == IF NotIn(s, cs) = {} THEN "" ELSE SubSeq(s, 1, Max(NotIn(s, cs)))

\* the characters str.strip() with no argument strips, among those of Alphabet
Whitespace == {" ", "\t", "\n", "\r"}

LStrip(s) == LStripChars(s, Whitespace)

RStrip(s) == RStripChars(s, Whitespace)

Strip(s) == RStrip(LStrip(s))

StartsWith(s, p) == Len(s) >= Len(p) /\ SubSeq(s, 1, Len(p)) = p

EndsWith(s, p) == Len(s) >= Len(p) /\ SubSeq(s, Len(s) - Len(p) + 1, Len(s)) = p

\* `k in s`
Contains(s, k) ==
    Len(k) <= Len(s) /\ \E i \in 0..(Len(s) - Len(k)) : SubSeq(s, i + 1, i + Len(k)) = k

UpperCase == "ABCDEFGHIJKLMNOPQRSTUVWXYZ"
LowerCase == "abcdefghijklmnopqrstuvwxyz"

\* upper-case letter -> lower-case letter
UpperToLower ==
    [c \in {Ch(UpperCase, i) : i \in 1..Len(UpperCase)} |->
        Ch(LowerCase, CHOOSE i \in 1..Len(UpperCase) : Ch(UpperCase, i) = c)]

\* str.lower()
RECURSIVE Lower(_)
Lower(s) ==
    LET up == {i \in 1..Len(s) : Ch(s, i) \in DOMAIN UpperToLower} IN
    IF up = {} THEN s
    ELSE SubSeq(s, 1, Min(up) - 1) \o UpperToLower[Ch(s, Min(up))]
         \o Lower(SubSeq(s, Min(up) + 1, Len(s)))

\* The characters that occur in names, in code-point (ASCII) order
Alphabet == "\t\n\r #*-./0123456789:ABCDEFGHIJKLMNOPQRSTUVWXYZ[]_abcdefghijklmnopqrstuvwxyz{}"

\* ord(c), up to an order-preserving renumbering
Ord ==
    [c \in {Ch(Alphabet, i) : i \in 1..Len(Alphabet)} |->
        CHOOSE i \in 1..Len(Alphabet) : Ch(Alphabet, i) = c]

\* a < b for str: decided at the first position where they differ
StrLess(a, b) ==
    LET n    == IF Len(a) < Len(b) THEN Len(a) ELSE Len(b)
        diff == {i \in 1..n : Ch(a, i) # Ch(b, i)}
    IN  IF diff = {} THEN Len(a) < Len(b)
        ELSE Ord[Ch(a, Min(diff))] < Ord[Ch(b, Min(diff))]

\* sorted(S) for a finite set of str
RECURSIVE SortedSeq(_)
SortedSeq(S) ==
    IF S = {} THEN <<>>
    ELSE LET m == CHOOSE x \in S : \A y \in S \ {x} : StrLess(x, y)
         IN  <<m>> \o SortedSeq(S \ {m})

\* positions of s that hold a line break character
Breaks(s) == {i \in 1..Len(s) : Ch(s, i) \in {"\n", "\r"}}

\* length of the line break that starts at position i of s ("\r\n" is one break)
BreakLen(s, i) == IF i < Len(s) /\ SubSeq(s, i, i + 1) = "\r\n" THEN 2 ELSE 1

\* str.splitlines(): breaks at \n, \r\n and \r; no empty last line
RECURSIVE SplitLines(_)
SplitLines(s) ==
    IF Len(s) = 0 THEN <<>>
    ELSE IF Breaks(s) = {} THEN <<s>>
    ELSE LET i == Min(Breaks(s))
         IN  <<SubSeq(s, 1, i - 1)>> \o SplitLines(SubSeq(s, i + BreakLen(s, i), Len(s)))

\* sep.join(seq)
RECURSIVE Join(_, _)
Join(seq, sep) ==
    IF Len(seq) = 0 THEN ""
    ELSE IF Len(seq) = 1 THEN seq[1]
    ELSE seq[1] \o sep \o Join(Tail(seq), sep)

Digits == "0123456789"

\* str(n) for n >= 0
RECURSIVE Decimal(_)
Decimal(n) ==
    IF n < 10 THEN Ch(Digits, n + 1)
    ELSE Decimal(n \div 10) \o Ch(Digits, (n % 10) + 1)

\* format(n, "03d"): zero-padded to at least 3 digits
RECURSIVE ZeroPad(_, _)
ZeroPad(s, w) == IF Len(s) >= w THEN s ELSE ZeroPad("0" \o s, w)

Format03d(n) == ZeroPad(Decimal(n), 3)

-----------------------------------------------------------------------------
(* artifacts.py: _parse_stories_from_markdown                               *)

\* The parser's locals as one record
ParserInit ==
    [subtasks |-> <<>>, current_heading |-> "", current_body_lines |-> <<>>,
     current_ac |-> <<>>, in_ac_section |-> FALSE]

NonStoryKeywords ==
    {"acceptance criteria", "tasks", "subtask", "notes", "dependencies",
     "definition of done"}

BulletPrefixes == {"- ", "* ", "- [ ] "}

\* (mutant) a heading of any level counts
IsStoryLevelHeading_AnyLevel(stripped) == StartsWith(stripped, "#")

\* stripped.startswith("## ") or stripped.startswith("### ")
IsStoryLevelHeading(stripped) == StartsWith(stripped, "## ") \/ StartsWith(stripped, "### ")

\* heading = stripped.lstrip("#").strip()
HeadingText(stripped) == Strip(LStripChars(stripped, {"#"}))

\* (mutant) the keyword test without .lower()
IsNonStoryHeading_CaseSensitive(heading) ==
    \E kw \in NonStoryKeywords : Contains(heading, kw)

\* any(kw in heading.lower() for kw in (...))
IsNonStoryHeading(heading) ==
    LET lowered == Lower(heading) IN \E kw \in NonStoryKeywords : Contains(lowered, kw)

\* stripped.startswith(("- ", "* ", "- [ ] "))
IsBullet(stripped) == \E b \in BulletPrefixes : StartsWith(stripped, b)

\* (mutant) bullets collected whatever the section
CollectsBullet_AnySection(st, stripped) == IsBullet(stripped)

\* in_ac_section and stripped.startswith(("- ", "* ", "- [ ] "))
CollectsBullet(st, stripped) == st.in_ac_section /\ IsBullet(stripped)

\* ac_text = stripped.lstrip("-*[] ").strip()
AcText(stripped) == Strip(LStripChars(stripped, {"-", "*", "[", "]", " "}))

\* (mutant) no line is an inline criterion
IsInlineAc_Never(stripped) == FALSE

\* stripped.lower().startswith("ac:") or stripped.lower().startswith("given ")
IsInlineAc(stripped) ==
    LET lowered == Lower(stripped) IN StartsWith(lowered, "ac:") \/ StartsWith(lowered, "given ")

\* the subtask dict built by flush()
MakeSubtask(idx, st) ==
    [id |-> "bmad-" \o Format03d(idx + 1),
     description |-> Strip(st.current_heading),
     details |-> Strip(Join(st.current_body_lines, "\n")),
     service |-> "all",
     files_to_modify |-> <<>>,
     files_to_create |-> <<>>,
     patterns_from |-> <<>>,
     acceptance_criteria |-> st.current_ac]

\* (mutant) criteria collected while no story is open survive the flush
Flush_KeepsCriteria(st, start) ==
    [subtasks |->
        IF st.current_heading # ""
        THEN Append(st.subtasks, MakeSubtask(start + Len(st.subtasks), st))
        ELSE st.subtasks,
     current_heading |-> "",
     current_body_lines |-> <<>>,
     current_ac |-> IF st.current_heading # "" THEN <<>> ELSE st.current_ac,
     in_ac_section |-> FALSE]

\* flush(): emit the open story, if any, and reset the locals
Flush(st, start) ==
    [subtasks |->
        IF st.current_heading # ""
        THEN Append(st.subtasks, MakeSubtask(start + Len(st.subtasks), st))
        ELSE st.subtasks,
     current_heading |-> "",
     current_body_lines |-> <<>>,
     current_ac |-> <<>>,
     in_ac_section |-> FALSE]

\* (mutant) an excluded heading can only switch the acceptance section on
ParseLine_SectionSticks(st, line, start) ==
    LET stripped == Strip(line) IN
    IF IsStoryLevelHeading(stripped)
    THEN LET heading == HeadingText(stripped) IN
         IF IsNonStoryHeading(heading)
         THEN [st EXCEPT !.in_ac_section = @ \/ Contains(Lower(heading), "acceptance")]
         ELSE [Flush(st, start) EXCEPT !.current_heading = heading]
    ELSE IF CollectsBullet(st, stripped)
    THEN IF AcText(stripped) # ""
         THEN [st EXCEPT !.current_ac = Append(@, AcText(stripped))]
         ELSE st
    ELSE IF IsInlineAc(stripped)
    THEN [st EXCEPT !.current_ac = Append(@, stripped)]
    ELSE IF st.current_heading # ""
    THEN [st EXCEPT !.current_body_lines = Append(@, line)]
    ELSE st

\* one iteration of `for line in content.splitlines()`
ParseLine(st, line, start) ==
    LET stripped == Strip(line) IN
    IF IsStoryLevelHeading(stripped)
    THEN LET heading == HeadingText(stripped) IN
         IF IsNonStoryHeading(heading)
         THEN [st EXCEPT !.in_ac_section = Contains(Lower(heading), "acceptance")]
         ELSE [Flush(st, start) EXCEPT !.current_heading = heading]
    ELSE IF CollectsBullet(st, stripped)
    THEN IF AcText(stripped) # ""
         THEN [st EXCEPT !.current_ac = Append(@, AcText(stripped))]
         ELSE st
    ELSE IF IsInlineAc(stripped)
    THEN [st EXCEPT !.current_ac = Append(@, stripped)]
    ELSE IF st.current_heading # ""
    THEN [st EXCEPT !.current_body_lines = Append(@, line)]
    ELSE st

RECURSIVE ParseLines(_, _, _)
ParseLines(st, ls, start) ==
    IF Len(ls) = 0 THEN st ELSE ParseLines(ParseLine(st, Head(ls), start), Tail(ls), start)

\* _parse_stories_from_markdown(content, start_index)
ParseStoriesFromMarkdown(text, start) ==
    Flush(ParseLines(ParserInit, SplitLines(text), start), start).subtasks

-----------------------------------------------------------------------------
(* artifacts.py: the artifact store                                         *)

BMAD_ARTIFACTS_SUBDIR == "bmad"

ARTIFACT_FILES ==
    ("product_brief" :> "product-brief.md") @@ ("prd" :> "prd.md") @@
    ("ux_design" :> "ux-design.md") @@ ("architecture" :> "architecture.md") @@
    ("epics" :> "epics.md") @@ ("stories" :> "stories.md") @@
    ("sprint_plan" :> "sprint-plan.md") @@ ("readiness_report" :> "readiness-report.md")

ArtifactFileNames == {ARTIFACT_FILES[t] : t \in DOMAIN ARTIFACT_FILES}

\* pathlib: a / b
PathJoin(a, b) == IF b = "" \/ b = "." THEN a ELSE a \o "/" \o b

\* positions of the "/" separators of a path
Slashes(p) == {i \in 1..Len(p) : Ch(p, i) = "/"}

\* pathlib: p.name (also ref.rsplit("/", 1)[-1] of a str with a "/")
PathName(p) == IF Slashes(p) = {} THEN p ELSE SubSeq(p, Max(Slashes(p)) + 1, Len(p))

\* pathlib: p.parent
PathParent(p) == IF Slashes(p) = {} THEN "" ELSE SubSeq(p, 1, Max(Slashes(p)) - 1)

\* ARTIFACT_FILES.get(artifact_type, f"{artifact_type}.md")
ArtifactFileName(t) == IF t \in DOMAIN ARTIFACT_FILES THEN ARTIFACT_FILES[t] ELSE t \o ".md"

BmadRoot == BMAD_ARTIFACTS_SUBDIR

\* (mutant) sprint_plan is filed with the planning documents
SaveSubdir_SprintPlanInPlanning(t) ==
    IF t \in {"product_brief", "prd", "ux_design", "architecture", "readiness_report",
              "sprint_plan"}
    THEN PathJoin(BmadRoot, "planning")
    ELSE IF t \in {"epics", "stories"}
    THEN PathJoin(BmadRoot, "stories")
    ELSE PathJoin(BmadRoot, "reviews")

\* save_artifact: "Determine subdirectory"
SaveSubdir(t) ==
    IF t \in {"product_brief", "prd", "ux_design", "architecture", "readiness_report"}
    THEN PathJoin(BmadRoot, "planning")
    ELSE IF t \in {"epics", "stories", "sprint_plan"}
    THEN PathJoin(BmadRoot, "stories")
    ELSE PathJoin(BmadRoot, "reviews")

\* The platform's os.linesep (POSIX)
LineSep == "\n"

\* Path.write_text: text mode, newline=None: each "\n" is written as os.linesep
RECURSIVE WriteText(_)
WriteText(s) ==
    LET nl == {i \in 1..Len(s) : Ch(s, i) = "\n"} IN
    IF nl = {} THEN s
    ELSE SubSeq(s, 1, Min(nl) - 1) \o LineSep \o WriteText(SubSeq(s, Min(nl) + 1, Len(s)))

\* Path.read_text: text mode, newline=None (universal newlines): "\r\n" and "\r" read as "\n"
RECURSIVE ReadText(_)
ReadText(s) ==
    LET cr == {i \in 1..Len(s) : Ch(s, i) = "\r"} IN
    IF cr = {} THEN s
    ELSE SubSeq(s, 1, Min(cr) - 1) \o "\n"
         \o ReadText(SubSeq(s, Min(cr) + BreakLen(s, Min(cr)), Len(s)))

\* (mutant) the text is appended to a file that exists
WithFile_Append(fs, p, text) ==
    [q \in DOMAIN fs \cup {p} |->
        IF q = p THEN (IF p \in DOMAIN fs THEN fs[p] \o text ELSE text) ELSE fs[q]]

\* fs with text written to path p
WithFile(fs, p, text) == [q \in DOMAIN fs \cup {p} |-> IF q = p THEN text ELSE fs[q]]

\* mkdir(parents=True, exist_ok=True) of a directory below bmad/
MkdirParents(ds, d) == ds \cup {BmadRoot, d}

\* load_artifact's return value: None, or the text
None == [found |-> FALSE, text |-> ""]
Some(text) == [found |-> TRUE, text |-> text]

\* bool(x) for x: str | None
Truthy(r) == r.found /\ r.text # ""

\* (mutant) the bmad root is searched first
LoadCandidates_RootFirst(t) ==
    <<PathJoin(BmadRoot, ArtifactFileName(t)),
      PathJoin(PathJoin(BmadRoot, "planning"), ArtifactFileName(t)),
      PathJoin(PathJoin(BmadRoot, "stories"), ArtifactFileName(t)),
      PathJoin(PathJoin(BmadRoot, "reviews"), ArtifactFileName(t))>>

\* load_artifact: the candidates of "Search across subdirectories", in loop order
LoadCandidates(t) ==
    <<PathJoin(PathJoin(BmadRoot, "planning"), ArtifactFileName(t)),
      PathJoin(PathJoin(BmadRoot, "stories"), ArtifactFileName(t)),
      PathJoin(PathJoin(BmadRoot, "reviews"), ArtifactFileName(t)),
      PathJoin(BmadRoot, ArtifactFileName(t))>>

\* load_artifact(spec_dir, artifact_type) on the file system fs
LoadArtifactFrom(fs, t) ==
    LET cands == LoadCandidates(t)
        hits  == {i \in 1..Len(cands) : cands[i] \in DOMAIN fs}
    IN  IF hits = {} THEN None
        ELSE Some(ReadText(fs[cands[CHOOSE i \in hits : \A j \in hits : i <= j]]))

\* (mutant) the story files are visited in descending filename order
StoryFilesOf_Descending(fs) ==
    LET asc == SortedSeq({f \in DOMAIN fs :
                            /\ PathParent(f) = PathJoin(BmadRoot, "stories")
                            /\ EndsWith(PathName(f), ".md")})
    IN  [i \in 1..Len(asc) |-> asc[Len(asc) + 1 - i]]

\* stories_to_implementation_plan: the loop over sorted(stories_dir.glob("*.md"))
StoryFilesOf(fs) ==
    SortedSeq({f \in DOMAIN fs :
                 /\ PathParent(f) = PathJoin(BmadRoot, "stories")
                 /\ EndsWith(PathName(f), ".md")})

\* (mutant) the running index is not advanced
NextTaskIndex_Stuck(task_index, parsed) == task_index

\* task_index += len(parsed)
NextTaskIndex(task_index, parsed) == task_index + Len(parsed)

RECURSIVE ParseStoryFiles(_, _, _)
ParseStoryFiles(fs, story_files, task_index) ==
    IF Len(story_files) = 0 THEN <<>>
    ELSE IF PathName(Head(story_files)) \in ArtifactFileNames
    THEN ParseStoryFiles(fs, Tail(story_files), task_index)
    ELSE LET parsed == ParseStoriesFromMarkdown(ReadText(fs[Head(story_files)]), task_index)
         IN  parsed \o ParseStoryFiles(fs, Tail(story_files), NextTaskIndex(task_index, parsed))

\* source_content = stories_content or epics_content or ""
SourceContent(stories_content, epics_content) ==
    IF Truthy(stories_content) THEN stories_content.text
    ELSE IF Truthy(epics_content) THEN epics_content.text
    ELSE ""

\* source_content as stories_to_implementation_plan computes it on fs
SourceOf(fs) ==
    SourceContent(LoadArtifactFrom(fs, "stories"), LoadArtifactFrom(fs, "epics"))

\* the subtasks of stories_to_implementation_plan(spec_dir) on fs, ds
PlanSubtasks(fs, ds) ==
    LET source_content == SourceOf(fs)
        first == IF source_content # "" THEN ParseStoriesFromMarkdown(source_content, 0)
                 ELSE <<>>
        task_index == NextTaskIndex(0, first)
    IN  IF PathJoin(BmadRoot, "stories") \in ds
        THEN first \o ParseStoryFiles(fs, StoryFilesOf(fs), task_index)
        ELSE first

\* the plan dict (generated_at, a wall-clock reading, is left out)
MakePlan(sts) ==
    [subtasks |-> sts, metadata |-> [source |-> "bmad", spec_dir |-> "spec_dir"]]

\* json.dumps: the characters a JSON string literal escapes, among those of Alphabet
JsonEscapes ==
    ("\"" :> "\\\"") @@ ("\\" :> "\\\\") @@ ("\n" :> "\\n") @@ ("\r" :> "\\r") @@
    ("\t" :> "\\t")

\* json.dumps of a str, without the enclosing quotes
RECURSIVE JsonString(_)
JsonString(s) ==
    LET special == {i \in 1..Len(s) : Ch(s, i) \in DOMAIN JsonEscapes} IN
    IF special = {} THEN s
    ELSE SubSeq(s, 1, Min(special) - 1) \o JsonEscapes[Ch(s, Min(special))]
         \o JsonString(SubSeq(s, Min(special) + 1, Len(s)))

\* json.loads: the character an escape sequence \c stands for
JsonUnescapes == ("\"" :> "\"") @@ ("\\" :> "\\") @@ ("n" :> "\n") @@ ("r" :> "\r") @@ ("t" :> "\t")

\* json.loads of the inside of a string literal
RECURSIVE JsonStringValue(_)
JsonStringValue(s) ==
    LET esc == {i \in 1..Len(s) : Ch(s, i) = "\\"} IN
    IF esc = {} THEN s
    ELSE SubSeq(s, 1, Min(esc) - 1) \o JsonUnescapes[Ch(s, Min(esc) + 1)]
         \o JsonStringValue(SubSeq(s, Min(esc) + 2, Len(s)))

\* a plan dict with every str in it written as a JSON literal (way "dumps") or read
\* from one (way "loads")
MapPlanStrings(way, plan) ==
    LET f(s) == IF way = "dumps" THEN JsonString(s) ELSE JsonStringValue(s) IN
    [subtasks |->
        [i \in 1..Len(plan.subtasks) |->
            LET st == plan.subtasks[i] IN
            [id |-> f(st.id),
             description |-> f(st.description),
             details |-> f(st.details),
             service |-> f(st.service),
             files_to_modify |-> st.files_to_modify,
             files_to_create |-> st.files_to_create,
             patterns_from |-> st.patterns_from,
             acceptance_criteria |->
                 [j \in 1..Len(st.acceptance_criteria) |-> f(st.acceptance_criteria[j])]]],
     metadata |-> [source |-> f(plan.metadata.source), spec_dir |-> f(plan.metadata.spec_dir)]]

\* json.dumps(plan, indent=2): the document, with its string literals. The line breaks
\* of the document stand between tokens, so the text mode of write_text and
\* read_text leaves the literals as they are.
JsonDumps(plan) == MapPlanStrings("dumps", plan)

\* json.loads of the document
JsonLoads(doc) == MapPlanStrings("loads", doc)

NoPlanFile == [exists |-> FALSE]

\* (mutant) an existing plan file is left as it is
PlanFileAfterWrite_KeepExisting(prior, doc) ==
    IF prior.exists THEN prior ELSE [exists |-> TRUE, doc |-> doc]

\* plan_path.write_text(...): the file is created or replaced
PlanFileAfterWrite(prior, doc) == [exists |-> TRUE, doc |-> doc]

-----------------------------------------------------------------------------
(* The artifact API as actions on the spec directory.                       *)

\* (mutant) the reviews directory is left out
StructureDirs_NoReviews == {PathJoin(BmadRoot, "planning"), PathJoin(BmadRoot, "stories")}

\* create_bmad_structure: bmad_root / subdir for subdir in ("planning", "stories", "reviews")
StructureDirs ==
    {PathJoin(BmadRoot, "planning"), PathJoin(BmadRoot, "stories"),
     PathJoin(BmadRoot, "reviews")}

CreateBmadStructure ==
    /\ dirs' = dirs \cup {BmadRoot} \cup StructureDirs
    /\ op' = [name |-> "create_bmad_structure"]
    /\ UNCHANGED <<files, plan_file, parseVars, wfVars, phaseVars>>

SaveArtifact(t, c) ==
    LET artifact_path == PathJoin(SaveSubdir(t), ArtifactFileName(t)) IN
    /\ dirs' = MkdirParents(dirs, SaveSubdir(t))
    /\ files' = WithFile(files, artifact_path, WriteText(c))
    /\ op' = [name |-> "save_artifact", type |-> t, content |-> c, ret |-> artifact_path]
    /\ UNCHANGED <<plan_file, parseVars, wfVars, phaseVars>>

LoadArtifact(t) ==
    /\ op' = [name |-> "load_artifact", type |-> t, ret |-> LoadArtifactFrom(files, t)]
    /\ UNCHANGED <<files, dirs, plan_file, parseVars, wfVars, phaseVars>>

\* The agent collaborator writes an individual story file into bmad/stories/
AgentWritesStoryFile(name, c) ==
    /\ dirs' = MkdirParents(dirs, PathJoin(BmadRoot, "stories"))
    /\ files' = WithFile(files, PathJoin(PathJoin(BmadRoot, "stories"), name), c)
    /\ op' = [name |-> "agent_write", file |-> name]
    /\ UNCHANGED <<plan_file, parseVars, wfVars, phaseVars>>

\* op.prior records the plan file the call found
StoriesToImplementationPlan ==
    LET plan == MakePlan(PlanSubtasks(files, dirs)) IN
    /\ plan_file' = PlanFileAfterWrite(plan_file, JsonDumps(plan))
    /\ op' = [name |-> "stories_to_implementation_plan", ret |-> plan,
              source_content |-> SourceOf(files), prior |-> plan_file]
    /\ UNCHANGED <<files, dirs, parseVars, wfVars, phaseVars>>

-----------------------------------------------------------------------------
(* Inputs of the artifact store specifications.                             *)

\* recognized types, and custom names (two of them the filename stem of a recognized type)
StoreTypes == {"product_brief", "sprint_plan", "product-brief", "sprint-plan", "qa-report"}
StoreContents == {"", "Goal", "a\r\nb"}

PlanTypes == {"stories", "epics"}
PlanContents == {"", "## A\nbody", "## B\nx\n\ty\n### C\n"}
StoryFileNames == {"extra.md", "auth.md"}
StoryFileContents == {"## D\n", "x\n## E\n## F\n## G\n## H\n## I"}

PhaseIdle ==
    /\ agents = <<>> /\ phase_pc = "idle" /\ attempt = 0 /\ ph = [method |-> "none"]

StoreIdle ==
    /\ files = <<>> /\ dirs = {} /\ plan_file = NoPlanFile /\ op = [name |-> "none"]

ParseIdle ==
    /\ content = "" /\ start_index = 0 /\ lines = <<>> /\ pos = 0 /\ subtasks = <<>>
    /\ current_heading = "" /\ current_body_lines = <<>> /\ current_ac = <<>>
    /\ in_ac_section = FALSE /\ pc = "idle"

WfIdle ==
    /\ wfs = <<>> /\ workflow = [name |-> "none"] /\ got = [name |-> "none"]

InitStore == StoreIdle /\ PhaseIdle /\ ParseIdle /\ WfIdle

NextStore ==
    \/ CreateBmadStructure
    \/ \E t \in StoreTypes, c \in StoreContents : SaveArtifact(t, c)
    \/ \E t \in StoreTypes : LoadArtifact(t)

SpecStore == InitStore /\ [][NextStore]_vars

NextPlan ==
    \/ \E t \in PlanTypes, c \in PlanContents : SaveArtifact(t, c)
    \/ \E n \in StoryFileNames, c \in StoryFileContents : AgentWritesStoryFile(n, c)
    \/ StoriesToImplementationPlan

SpecPlan == InitStore /\ [][NextPlan]_vars

\* The agent collaborator writes a file below bmad/ on its own (the phases tell it the
\* paths; nothing confines it to the path save_artifact would choose)
AgentWritesArtifact(path, c) ==
    /\ dirs' = MkdirParents(dirs, PathParent(path))
    /\ files' = WithFile(files, path, c)
    /\ op' = [name |-> "agent_write", file |-> path]
    /\ UNCHANGED <<plan_file, parseVars, wfVars, phaseVars>>

\* ---- inputs of the artifact specification: a recognized type, a custom type named
\* like its file stem, the stories type and another custom type; files the agent places
\* in the stories directory and in the bmad root
ArtTypes == {"product_brief", "product-brief", "stories", "qa-report"}
ArtContents == {"one", "## S\ntwo"}
AgentPaths == {"bmad/stories/product-brief.md", "bmad/product-brief.md", "bmad/qa-report.md"}
AgentContents == {"three"}

NextArtifacts ==
    \/ CreateBmadStructure
    \/ \E t \in ArtTypes, c \in ArtContents : SaveArtifact(t, c)
    \/ \E t \in ArtTypes : LoadArtifact(t)
    \/ \E path \in AgentPaths, c \in AgentContents : AgentWritesArtifact(path, c)
    \/ StoriesToImplementationPlan

SpecArtifacts == InitStore /\ [][NextArtifacts]_vars

\* ---- inputs of the save specification: every recognized type and two custom types,
\* saved into a spec directory that holds fewer than MaxSaved artifact files
MaxSaved == 2

SaveTypes == DOMAIN ARTIFACT_FILES \cup {"product-brief", "qa-report"}
SaveContents == {"x", "y"}

NextSave ==
    \E t \in SaveTypes, c \in SaveContents :
        Cardinality(DOMAIN files) < MaxSaved /\ SaveArtifact(t, c)

SpecSave == InitStore /\ [][NextSave]_vars

-----------------------------------------------------------------------------
(* _parse_stories_from_markdown as a process: one loop iteration per step.   *)

\* The locals of the running call
ParserState ==
    [subtasks |-> subtasks, current_heading |-> current_heading,
     current_body_lines |-> current_body_lines, current_ac |-> current_ac,
     in_ac_section |-> in_ac_section]

SetParserState(st) ==
    /\ subtasks' = st.subtasks
    /\ current_heading' = st.current_heading
    /\ current_body_lines' = st.current_body_lines
    /\ current_ac' = st.current_ac
    /\ in_ac_section' = st.in_ac_section

\* the body of `for line in content.splitlines()`
ParseIter ==
    /\ pc = "loop"
    /\ pos < Len(lines)
    /\ SetParserState(ParseLine(ParserState, lines[pos + 1], start_index))
    /\ pos' = pos + 1
    /\ UNCHANGED <<content, start_index, lines, pc, storeVars, wfVars, phaseVars>>

\* the final flush() and `return subtasks`
ParseReturn ==
    /\ pc = "loop"
    /\ pos = Len(lines)
    /\ SetParserState(Flush(ParserState, start_index))
    /\ pc' = "done"
    /\ UNCHANGED <<content, start_index, lines, pos, storeVars, wfVars, phaseVars>>

\* Input documents: up to MaxLines lines, each one of SampleLines
MaxLines == 4

SampleLines ==
    {"## Story One", "### User Acceptance", "### Acceptance Criteria", "### Tasks",
     "#### Deep", "- item", "Given x", "body"}

Docs == {Join(ls, "\n") : ls \in UNION {[1..n -> SampleLines] : n \in 0..MaxLines}}

InitParse ==
    /\ content \in Docs
    /\ start_index = 0
    /\ lines = SplitLines(content)
    /\ pos = 0
    /\ subtasks = ParserInit.subtasks
    /\ current_heading = ParserInit.current_heading
    /\ current_body_lines = ParserInit.current_body_lines
    /\ current_ac = ParserInit.current_ac
    /\ in_ac_section = ParserInit.in_ac_section
    /\ pc = "loop"
    /\ StoreIdle /\ PhaseIdle /\ WfIdle

NextParse == ParseIter \/ ParseReturn

SpecParse == InitParse /\ [][NextParse]_vars

\* Input documents with acceptance-criteria bullets: checkbox bullets and bullets
\* whose text begins with a character of the marker alphabet
BulletLines ==
    {"## Story One", "### Acceptance Criteria", "- item", "- [ ] todo", "- [x] done",
     "* -5 deg", "- [ref] see", "body"}

BulletDocs == {Join(ls, "\n") : ls \in UNION {[1..n -> BulletLines] : n \in 0..MaxLines}}

InitBullets ==
    /\ content \in BulletDocs
    /\ start_index = 0
    /\ lines = SplitLines(content)
    /\ pos = 0
    /\ subtasks = ParserInit.subtasks
    /\ current_heading = ParserInit.current_heading
    /\ current_body_lines = ParserInit.current_body_lines
    /\ current_ac = ParserInit.current_ac
    /\ in_ac_section = ParserInit.in_ac_section
    /\ pc = "loop"
    /\ StoreIdle /\ PhaseIdle /\ WfIdle

SpecBullets == InitBullets /\ [][NextParse]_vars

\* the call _parse_stories_from_markdown(content, 0): the locals are initialised
ParseCall(text) ==
    /\ pc = "idle"
    /\ content' = text
    /\ start_index' = 0
    /\ lines' = SplitLines(text)
    /\ pos' = 0
    /\ SetParserState(ParserInit)
    /\ pc' = "loop"
    /\ UNCHANGED <<storeVars, wfVars, phaseVars>>

InitParseCall == StoreIdle /\ PhaseIdle /\ ParseIdle /\ WfIdle

\* Input documents of a call: up to MaxLines lines, each one of CallLines
CallLines == {"## Story One", "### Acceptance Criteria", "#### Deep", "- item", "Given x"}

CallDocs == {Join(ls, "\n") : ls \in UNION {[1..n -> CallLines] : n \in 0..MaxLines}}

NextParseCall ==
    \/ \E text \in CallDocs : ParseCall(text)
    \/ ParseIter
    \/ ParseReturn

\* what a step of a running call does to the loop position and the program counter:
\* ParseIter reads one more line, ParseReturn leaves the loop
ParseProgress ==
    /\ pc = "loop"
    /\ \/ pos' = pos + 1 /\ pc' = pc
       \/ pos' = pos /\ pc' = "done"

\* A call runs on one thread and nothing suspends it: while it is in the loop, its next
\* step (ParseIter or ParseReturn) is taken
SpecParseCall ==
    InitParseCall /\ [][NextParseCall]_vars /\ WF_<<pos, pc>>(ParseProgress)

-----------------------------------------------------------------------------
(* config.py / workflows.py: the workflow resolver                          *)

\* BMAD_WORKFLOWS_DIR, as a path
WorkflowsRoot == "workflows"

PHASE_WORKFLOW_MAP ==
    ("product_brief" :> <<"1-analysis", "create-product-brief">>) @@
    ("research" :> <<"1-analysis", "research">>) @@
    ("prd" :> <<"2-planning", "create-prd">>) @@
    ("ux_design" :> <<"2-planning", "create-ux-design">>) @@
    ("architecture" :> <<"3-solutioning", "create-architecture">>) @@
    ("epics_stories" :> <<"3-solutioning", "create-epics-and-stories">>) @@
    ("implementation_readiness" :> <<"3-solutioning", "check-implementation-readiness">>) @@
    ("sprint_planning" :> <<"4-implementation", "sprint-planning">>) @@
    ("create_story" :> <<"4-implementation", "create-story">>) @@
    ("dev_story" :> <<"4-implementation", "dev-story">>) @@
    ("code_review" :> <<"4-implementation", "code-review">>) @@
    ("quick_spec" :> <<"quick-flow", "quick-spec">>) @@
    ("quick_dev" :> <<"quick-flow", "quick-dev">>)

\* Python values held by the workflow dict: a str, a Path, None, or another (truthy,
\* non-str) YAML value
StrV(x)  == [kind |-> "str", s |-> x]
PathV(x) == [kind |-> "path", s |-> x]
NoneV    == [kind |-> "none", s |-> ""]
OtherV   == [kind |-> "other", s |-> ""]

\* dict.update
DictUpdate(d, e) == [k \in DOMAIN d \cup DOMAIN e |-> IF k \in DOMAIN e THEN e[k] ELSE d[k]]

\* dict.get(key)
DictGet(d, k) == IF k \in DOMAIN d THEN d[k] ELSE NoneV

\* The tree maps each workflow directory to [entries, yaml]: its entries (name -> kind
\* and text) and what yaml.safe_load makes of its workflow.yaml (form "mapping" with the
\* top-level keys as data, or form "malformed").
\* (workflow_dir / filename).exists(), for a filename without "/": the directory itself
\* ("" and "."), its parent (".."), or one of its entries
ExistsIn(tree, workflow_dir, filename) ==
    \/ filename \in {"", ".", ".."}
    \/ filename \in DOMAIN tree[workflow_dir].entries

\* Path.exists() of a path in or at a workflow directory of the tree
PathExists(tree, p) ==
    \/ p \in DOMAIN tree
    \/ PathParent(p) \in DOMAIN tree /\ ExistsIn(tree, PathParent(p), PathName(p))

\* Path.is_dir() of such a path
PathIsDir(tree, p) ==
    \/ p \in DOMAIN tree
    \/ /\ PathParent(p) \in DOMAIN tree
       /\ \/ PathName(p) = ".."
          \/ /\ PathName(p) \in DOMAIN tree[PathParent(p)].entries
             /\ tree[PathParent(p)].entries[PathName(p)].kind = "dir"

\* (mutant) the reference value is used as it is written
RefFileName_Unstripped(ref) == ref

\* filename = ref.rsplit("/", 1)[-1] if "/" in ref else ref
RefFileName(ref) == IF Contains(ref, "/") THEN PathName(ref) ELSE ref

convention_names ==
    ("instructions" :> <<"instructions.xml", "instructions.md">>) @@
    ("validation" :> <<"checklist.md", "validation.md">>) @@
    ("checklist" :> <<"checklist.md">>) @@
    ("template" :> <<"template.md">>)

\* _resolve_ref, "Check YAML keys": the filenames of the keys that hold a non-empty str
RECURSIVE ExplicitCandidates(_, _)
ExplicitCandidates(data, keys) ==
    IF Len(keys) = 0 THEN <<>>
    ELSE LET ref == DictGet(data, Head(keys)) IN
         (IF ref.kind = "str" /\ ref.s # "" THEN <<RefFileName(ref.s)>> ELSE <<>>)
         \o ExplicitCandidates(data, Tail(keys))

\* _resolve_ref, "Convention-based fallback": the filenames, in loop order
RECURSIVE ConventionCandidates(_)
ConventionCandidates(keys) ==
    IF Len(keys) = 0 THEN <<>>
    ELSE convention_names[Head(keys)] \o ConventionCandidates(Tail(keys))

\* the first filename of the list for which workflow_dir / filename exists, as a set
\* (empty: none exists)
FirstExisting(tree, workflow_dir, cands) ==
    LET hits == {i \in 1..Len(cands) : ExistsIn(tree, workflow_dir, cands[i])} IN
    IF hits = {} THEN {} ELSE {cands[Min(hits)]}

\* fnmatch of name against "*<key>*<ext>"
GlobMatch(name, key, ext) ==
    EndsWith(name, ext) /\ Contains(SubSeq(name, 1, Len(name) - Len(ext)), key)

\* the names of workflow_dir.glob(f"*{key}*{ext}")
GlobMatches(tree, workflow_dir, key, ext) ==
    {m \in DOMAIN tree[workflow_dir].entries : GlobMatch(m, key, ext)}

\* the (key, ext) patterns of the glob loops, in loop order
RECURSIVE GlobPatterns(_)
GlobPatterns(keys) ==
    IF Len(keys) = 0 THEN <<>>
    ELSE <<<<Head(keys), ".md">>, <<Head(keys), ".xml">>>> \o GlobPatterns(Tail(keys))

\* _resolve_ref, "Also try pattern": matches[0] of the first pattern with a match; the
\* order of the list glob returns is the directory's enumeration order, which the file
\* system chooses, so every match is a possible result
GlobCandidates(tree, workflow_dir, keys) ==
    LET pats == GlobPatterns(keys)
        hits == {i \in 1..Len(pats) :
                    GlobMatches(tree, workflow_dir, pats[i][1], pats[i][2]) # {}}
    IN  IF hits = {} THEN {}
        ELSE GlobMatches(tree, workflow_dir, pats[Min(hits)][1], pats[Min(hits)][2])

\* (mutant) the convention list is tried before the YAML keys
ResolveRef_ConventionFirst(tree, workflow_dir, data, keys) ==
    LET explicit   == FirstExisting(tree, workflow_dir, ExplicitCandidates(data, keys))
        convention == FirstExisting(tree, workflow_dir, ConventionCandidates(keys))
        globbed    == GlobCandidates(tree, workflow_dir, keys)
        found      == IF convention # {} THEN convention
                      ELSE IF explicit # {} THEN explicit
                      ELSE globbed
    IN  IF found = {} THEN {NoneV} ELSE {PathV(PathJoin(workflow_dir, n)) : n \in found}

\* _resolve_ref(workflow_dir, data, *keys): the values it may return
ResolveRef(tree, workflow_dir, data, keys) ==
    LET explicit   == FirstExisting(tree, workflow_dir, ExplicitCandidates(data, keys))
        convention == FirstExisting(tree, workflow_dir, ConventionCandidates(keys))
        globbed    == GlobCandidates(tree, workflow_dir, keys)
        found      == IF explicit # {} THEN explicit
                      ELSE IF convention # {} THEN convention
                      ELSE globbed
    IN  IF found = {} THEN {NoneV} ELSE {PathV(PathJoin(workflow_dir, n)) : n \in found}

\* (mutant) the table is consulted whether or not a workflow name was given
UsesPhaseMap_IgnoringName(phase, workflow_name) == phase \in DOMAIN PHASE_WORKFLOW_MAP

\* workflow_name is None and phase in PHASE_WORKFLOW_MAP
UsesPhaseMap(phase, workflow_name) ==
    ~workflow_name.found /\ phase \in DOMAIN PHASE_WORKFLOW_MAP

\* phase_dir after "Resolve from the phase-workflow map"
PhaseDirOf(phase, workflow_name) ==
    IF UsesPhaseMap(phase, workflow_name) THEN PHASE_WORKFLOW_MAP[phase][1] ELSE phase

\* workflow_name after "Resolve from the phase-workflow map"
WorkflowNameOf(phase, workflow_name) ==
    IF UsesPhaseMap(phase, workflow_name) THEN Some(PHASE_WORKFLOW_MAP[phase][2])
    ELSE workflow_name

\* workflow_dir = base / phase_dir / workflow_name
WorkflowDirOf(phase, workflow_name) ==
    PathJoin(PathJoin(WorkflowsRoot, PhaseDirOf(phase, workflow_name)),
             WorkflowNameOf(phase, workflow_name).text)

\* (mutant) a directory without entries counts as missing
IsWorkflowDir_NonEmpty(tree, workflow_dir) ==
    workflow_dir \in DOMAIN tree /\ DOMAIN tree[workflow_dir].entries # {}

\* workflow_dir.is_dir(); the workflow directories of the tree are DOMAIN tree
IsWorkflowDir(tree, workflow_dir) == workflow_dir \in DOMAIN tree

\* (mutant) workflow.md is read whether or not workflow.yaml exists
DefinitionOf_BothRead(tree, workflow_dir) ==
    LET d == tree[workflow_dir]
        result == ("workflow_dir" :> PathV(workflow_dir))
        merged == IF "workflow.yaml" \in DOMAIN d.entries
                  THEN DictUpdate(result, d.yaml.data) ELSE result
    IN  IF "workflow.md" \in DOMAIN d.entries
        THEN DictUpdate(merged,
                 ("workflow_content" :> StrV(ReadText(d.entries["workflow.md"].text))))
        ELSE merged

\* the dict after "Try loading workflow.yaml first, then workflow.md"
DefinitionOf(tree, workflow_dir) ==
    LET d == tree[workflow_dir]
        result == ("workflow_dir" :> PathV(workflow_dir))
    IN  IF "workflow.yaml" \in DOMAIN d.entries
        THEN DictUpdate(result, d.yaml.data)
        ELSE IF "workflow.md" \in DOMAIN d.entries
        THEN DictUpdate(result,
                 ("workflow_content" :> StrV(ReadText(d.entries["workflow.md"].text))))
        ELSE result

\* load_workflow(phase, workflow_name): the outcomes it may have on the tree
LoadWorkflowOutcomes(tree, phase, workflow_name) ==
    LET workflow_dir == WorkflowDirOf(phase, workflow_name) IN
    IF ~WorkflowNameOf(phase, workflow_name).found
    THEN {[status |-> "ValueError", fs_probed |-> FALSE]}
    ELSE IF ~IsWorkflowDir(tree, workflow_dir)
    THEN {[status |-> "FileNotFoundError", fs_probed |-> TRUE, dir |-> workflow_dir]}
    ELSE IF "workflow.yaml" \in DOMAIN tree[workflow_dir].entries
            /\ tree[workflow_dir].yaml.form = "malformed"
    THEN {[status |-> "YAMLError", fs_probed |-> TRUE, dir |-> workflow_dir]}
    ELSE LET result == DefinitionOf(tree, workflow_dir) IN
         {[status |-> "ok", fs_probed |-> TRUE,
           dir |-> workflow_dir,
           result |-> DictUpdate(result,
                         ("instructions_path" :> ip) @@ ("checklist_path" :> cp) @@
                         ("template_path" :> tp))] :
            ip \in ResolveRef(tree, workflow_dir, result, <<"instructions">>),
            cp \in ResolveRef(tree, workflow_dir, result, <<"validation", "checklist">>),
            tp \in ResolveRef(tree, workflow_dir, result, <<"template">>)}

\* `path and path.exists()` then path.read_text(): the value returned, or the error
ReadIfExists(tree, path, otherwise) ==
    IF path.kind = "path" /\ PathExists(tree, path.s)
    THEN IF PathIsDir(tree, path.s)
         THEN [status |-> "IsADirectoryError", value |-> NoneV]
         ELSE [status |-> "ok",
               value |-> StrV(ReadText(tree[PathParent(path.s)].entries[PathName(path.s)].text))]
    ELSE [status |-> "ok", value |-> otherwise]

\* bool(x) of a value of the workflow dict
TruthyV(v) == v.kind \in {"path", "other"} \/ (v.kind = "str" /\ v.s # "")

\* get_instructions(workflow)
GetInstructionsOf(tree, wf) ==
    ReadIfExists(tree, DictGet(wf, "instructions_path"),
                 IF TruthyV(DictGet(wf, "workflow_content"))
                 THEN DictGet(wf, "workflow_content") ELSE StrV(""))

\* get_checklist(workflow)
GetChecklistOf(tree, wf) == ReadIfExists(tree, DictGet(wf, "checklist_path"), StrV(""))

\* get_template(workflow)
GetTemplateOf(tree, wf) == ReadIfExists(tree, DictGet(wf, "template_path"), StrV(""))

-----------------------------------------------------------------------------
(* The workflow API as actions on a workflow tree.                          *)

LoadWorkflow(phase, workflow_name) ==
    /\ \E o \in LoadWorkflowOutcomes(wfs, phase, workflow_name) :
          workflow' = [name |-> "load_workflow", phase |-> phase,
                       workflow_name |-> workflow_name, out |-> o]
    /\ got' = [name |-> "none"]
    /\ UNCHANGED <<wfs, storeVars, parseVars, phaseVars>>

Loaded == workflow.name = "load_workflow" /\ workflow.out.status = "ok"

GetInstructions ==
    /\ Loaded
    /\ got' = [name |-> "get_instructions", out |-> GetInstructionsOf(wfs, workflow.out.result)]
    /\ UNCHANGED <<wfs, workflow, storeVars, parseVars, phaseVars>>

GetChecklist ==
    /\ Loaded
    /\ got' = [name |-> "get_checklist", out |-> GetChecklistOf(wfs, workflow.out.result)]
    /\ UNCHANGED <<wfs, workflow, storeVars, parseVars, phaseVars>>

GetTemplate ==
    /\ Loaded
    /\ got' = [name |-> "get_template", out |-> GetTemplateOf(wfs, workflow.out.result)]
    /\ UNCHANGED <<wfs, workflow, storeVars, parseVars, phaseVars>>

\* ---- inputs of the reference-resolution specification: one workflow directory, with
\* up to MaxEntries files beside its definition file
MaxEntries == 2

ResolveDir == "workflows/1-analysis/research"

EntryNames ==
    {"instructions.md", "checklist.md", "validation.md", "template.md", "custom.md",
     "my-checklist.md", "old-checklist.md"}

RefKeys == {"instructions", "validation", "checklist", "template"}

RefValues ==
    {StrV("custom.md"), StrV("{root}/x/custom.md"), StrV("{installed_path}/checklist.md"),
     StrV("docs/"), OtherV}

FileEntry(n) == [kind |-> "file", text |-> "text of " \o n]

EntriesOf(names) == [n \in names |-> FileEntry(n)]

\* the YAML mappings: up to two of the reference keys, each with one of RefValues
YamlDatas == UNION {[K -> RefValues] : K \in {X \in SUBSET RefKeys : Cardinality(X) <= 2}}

NoYaml == [form |-> "mapping", data |-> <<>>]

\* the YAML mappings of the directories that hold workflow.md beside workflow.yaml
BothDatas ==
    {<<>>, ("instructions" :> StrV("custom.md")),
     ("workflow_content" :> StrV("from yaml"))}

ResolveDirs ==
    {[entries |-> EntriesOf(E \cup {"workflow.yaml"}), yaml |-> [form |-> "mapping", data |-> d]] :
        E \in {X \in SUBSET EntryNames : Cardinality(X) <= MaxEntries}, d \in YamlDatas}
    \cup
    {[entries |-> EntriesOf(E \cup D), yaml |-> y] :
        E \in {X \in SUBSET EntryNames : Cardinality(X) <= MaxEntries},
        D \in {{}, {"workflow.md"}},
        y \in {NoYaml}}
    \cup
    {[entries |-> EntriesOf(E \cup {"workflow.yaml"}), yaml |-> [form |-> "malformed", data |-> <<>>]] :
        E \in {X \in SUBSET EntryNames : Cardinality(X) <= MaxEntries}}
    \cup
    {[entries |-> EntriesOf(E \cup {"workflow.yaml", "workflow.md"}),
      yaml |-> [form |-> "mapping", data |-> d]] :
        E \in {X \in SUBSET EntryNames : Cardinality(X) <= MaxEntries}, d \in BothDatas}

InitResolve ==
    /\ \E d \in ResolveDirs : wfs = (ResolveDir :> d)
    /\ workflow = [name |-> "none"]
    /\ got = [name |-> "none"]
    /\ StoreIdle /\ PhaseIdle /\ ParseIdle

NextResolve ==
    \/ LoadWorkflow("research", None)
    \/ GetInstructions
    \/ GetChecklist
    \/ GetTemplate

SpecResolve == InitResolve /\ [][NextResolve]_vars

\* ---- inputs of the directory-lookup specification: which workflow directories exist
LoadDirs ==
    {"workflows/1-analysis/research", "workflows/research/research",
     "workflows/1-analysis/custom", "workflows/research/custom",
     "workflows/2-planning/create-prd"}

LoadDirContents ==
    {[entries |-> EntriesOf({}), yaml |-> NoYaml],
     [entries |-> EntriesOf({"instructions.md"}), yaml |-> NoYaml]}

LoadPhases == {"research", "prd", "1-analysis", "nophase"}
LoadNames == {None, Some("research"), Some("custom")}

InitLoad ==
    /\ wfs \in UNION {[D -> LoadDirContents] : D \in SUBSET LoadDirs}
    /\ workflow = [name |-> "none"]
    /\ got = [name |-> "none"]
    /\ StoreIdle /\ PhaseIdle /\ ParseIdle

NextLoad ==
    \/ \E phase \in LoadPhases, workflow_name \in LoadNames : LoadWorkflow(phase, workflow_name)
    \/ GetInstructions
    \/ GetChecklist
    \/ GetTemplate

SpecLoad == InitLoad /\ [][NextLoad]_vars

\* ---- inputs of the result-key specification: one workflow directory whose workflow.yaml
\* holds up to two top-level keys, among them keys named like the keys load_workflow
\* sets, with reference values that name the directory itself or its parent
KeyEntryNames == {"instructions.md", "custom.md", "template.md"}

KeyNames ==
    {"workflow_dir", "instructions_path", "checklist_path", "template_path",
     "instructions", "template"}

KeyValues == {StrV("custom.md"), StrV("elsewhere"), StrV(".."), StrV("."), StrV("docs/")}

KeyDatas == UNION {[K -> KeyValues] : K \in {X \in SUBSET KeyNames : Cardinality(X) <= 2}}

KeyDirs ==
    {[entries |-> EntriesOf(E \cup {"workflow.yaml"}), yaml |-> [form |-> "mapping", data |-> d]] :
        E \in {X \in SUBSET KeyEntryNames : Cardinality(X) <= MaxEntries}, d \in KeyDatas}

InitKeys ==
    /\ \E d \in KeyDirs : wfs = (ResolveDir :> d)
    /\ workflow = [name |-> "none"]
    /\ got = [name |-> "none"]
    /\ StoreIdle /\ PhaseIdle /\ ParseIdle

SpecKeys == InitKeys /\ [][NextResolve]_vars

\* ---- list_workflows
\* (mutant) every non-hidden entry is listed, directory or not
ListedNames_WithFiles(tree, phase_dir) ==
    {n \in DOMAIN tree[phase_dir].entries : ~StartsWith(n, ".")}

\* d.name for d in phase_dir.iterdir() if d.is_dir() and not d.name.startswith(".")
ListedNames(tree, phase_dir) ==
    {n \in DOMAIN tree[phase_dir].entries :
        tree[phase_dir].entries[n].kind = "dir" /\ ~StartsWith(n, ".")}

\* list_workflows(phase)
ListWorkflowsOf(tree, phase) ==
    LET phase_dir == PathJoin(WorkflowsRoot, phase) IN
    IF ~PathIsDir(tree, phase_dir) THEN <<>>
    ELSE SortedSeq(ListedNames(tree, phase_dir))

ListWorkflows(phase) ==
    /\ got' = [name |-> "list_workflows", phase |-> phase, out |-> ListWorkflowsOf(wfs, phase)]
    /\ UNCHANGED <<wfs, workflow, storeVars, parseVars, phaseVars>>

\* ---- inputs of the listing specification: a phase directory with up to MaxEntries
\* entries, each a directory or a file; or no phase directory; or a file in its place
ListPhaseDir == "workflows/1-analysis"

ListEntryNames == {"research", "create-prd", "Zeta", ".hidden", "README.md"}

ListPhases == {"1-analysis", "9-missing"}

ListTrees ==
    {(ListPhaseDir :> [entries |-> e, yaml |-> NoYaml]) :
        e \in UNION {[E -> {[kind |-> "dir", text |-> ""], [kind |-> "file", text |-> "x"]}] :
                        E \in {X \in SUBSET ListEntryNames : Cardinality(X) <= MaxEntries}}}
    \cup
    {(WorkflowsRoot :> [entries |-> e, yaml |-> NoYaml]) :
        e \in {<<>>, ("1-analysis" :> [kind |-> "file", text |-> "x"])}}

InitList ==
    /\ wfs \in ListTrees
    /\ workflow = [name |-> "none"]
    /\ got = [name |-> "none"]
    /\ StoreIdle /\ PhaseIdle /\ ParseIdle

NextList == \E phase \in ListPhases : ListWorkflows(phase)

SpecList == InitList /\ [][NextList]_vars

-----------------------------------------------------------------------------
(* config.py: track selection                                               *)

\* the dict `mapping` of get_bmad_track, with the values of the BMADTrack members
TrackMapping ==
    ("simple" :> "quick_flow") @@ ("standard" :> "bmad_method") @@
    ("complex" :> "enterprise")

\* (mutant) the label is looked up as it is written
GetBmadTrackOf_CaseSensitive(complexity) ==
    IF complexity \in DOMAIN TrackMapping THEN TrackMapping[complexity] ELSE "bmad_method"

\* get_bmad_track(complexity): mapping.get(complexity.lower(), BMADTrack.BMAD_METHOD)
GetBmadTrackOf(complexity) ==
    IF Lower(complexity) \in DOMAIN TrackMapping
    THEN TrackMapping[Lower(complexity)] ELSE "bmad_method"

GetBmadTrack(complexity) ==
    /\ got' = [name |-> "get_bmad_track", complexity |-> complexity,
               out |-> GetBmadTrackOf(complexity)]
    /\ UNCHANGED <<wfs, workflow, storeVars, parseVars, phaseVars>>

\* ---- inputs of the track specification: the three labels in every letter case, and
\* labels that are none of them
RECURSIVE CaseVariants(_)
CaseVariants(s) ==
    IF s = "" THEN {""}
    ELSE LET c    == Ch(s, 1)
             up   == {u \in DOMAIN UpperToLower : UpperToLower[u] = c}
             rest == CaseVariants(SubSeq(s, 2, Len(s)))
         IN  {h \o r : h \in {c} \cup up, r \in rest}

TrackLabels ==
    CaseVariants("simple") \cup CaseVariants("standard") \cup CaseVariants("complex")
    \cup {"", "medium", "simple ", " complex", "simplex", "quick_flow", "ENTERPRISE"}

InitTrack == StoreIdle /\ PhaseIdle /\ ParseIdle /\ WfIdle

NextTrack == \E complexity \in TrackLabels : GetBmadTrack(complexity)

SpecTrack == InitTrack /\ [][NextTrack]_vars

-----------------------------------------------------------------------------
(* personas.py: the persona loader                                          *)

\* _AGENT_SUFFIX
AgentSuffix == ".agent.yaml"

\* The agents directory maps the stem of each agent file that exists to [form, agent]:
\* what yaml.safe_load makes of the file (form "mapping": a mapping whose "agent"
\* subtree is agent; "empty": None; "malformed": a YAMLError).
\* load_persona(agent_name): the agent subtree, or the error raised
LoadPersonaOf(ag, agent_name) ==
    IF agent_name \notin DOMAIN ag
    THEN [status |-> "FileNotFoundError"]
    ELSE IF ag[agent_name].form = "malformed"
    THEN [status |-> "YAMLError"]
    ELSE IF ag[agent_name].form = "empty"
    THEN [status |-> "AttributeError"]
    ELSE [status |-> "ok", persona |-> ag[agent_name].agent]

\* _clean_multiline(text) of a str
CleanMultiline(text) ==
    LET ls   == SplitLines(Strip(text))
        kept == SelectSeq([i \in 1..Len(ls) |-> Strip(ls[i])], LAMBDA l : l # "")
    IN  Join(kept, " ")

\* format_persona_block(persona); a persona holds metadata (name, title, icon) and
\* persona (role, identity, communication_style, principles: a str) as dicts, and
\* critical_actions as a list; a key that is left out reads as its default
FormatPersonaBlock(persona) ==
    LET metadata == persona.metadata
        pd       == persona.persona
        name     == IF "name" \in DOMAIN metadata THEN metadata["name"] ELSE "Unknown"
        title    == IF "title" \in DOMAIN metadata THEN metadata["title"] ELSE "Agent"
        icon     == IF "icon" \in DOMAIN metadata THEN metadata["icon"] ELSE ""
        get(k)   == IF k \in DOMAIN pd THEN pd[k] ELSE ""
        head     == <<"## BMAD Persona: " \o icon \o " " \o name \o " - " \o title, "">>
        role     == IF get("role") # "" THEN <<"**Role:** " \o get("role")>> ELSE <<>>
        identity == IF get("identity") # ""
                    THEN <<"**Identity:** " \o CleanMultiline(get("identity"))>> ELSE <<>>
        style    == IF get("communication_style") # ""
                    THEN <<"**Communication Style:** "
                             \o CleanMultiline(get("communication_style"))>>
                    ELSE <<>>
        princ    == IF get("principles") # ""
                    THEN <<"", "**Principles:**", RStrip(get("principles"))>> ELSE <<>>
        actions  == IF Len(persona.critical_actions) > 0
                    THEN <<"", "**Critical Actions:**">>
                         \o [i \in 1..Len(persona.critical_actions) |->
                                "- " \o persona.critical_actions[i]]
                    ELSE <<>>
    IN  Join(head \o role \o identity \o style \o princ \o actions, "\n")

-----------------------------------------------------------------------------
(* spec/phases/bmad_phases.py: the phase methods of BMADPhaseMixin          *)

\* MAX_RETRIES of spec/phases/models.py
MAX_RETRIES == 3

PHASE_AGENT_MAP ==
    ("product_brief" :> "analyst") @@ ("research" :> "analyst") @@ ("prd" :> "pm") @@
    ("ux_design" :> "ux-designer") @@ ("architecture" :> "architect") @@
    ("epics_stories" :> "pm") @@ ("implementation_readiness" :> "pm") @@
    ("sprint_planning" :> "sm") @@ ("create_story" :> "sm") @@ ("dev_story" :> "dev") @@
    ("code_review" :> "dev") @@ ("qa" :> "qa") @@
    ("quick_spec" :> "quick-flow-solo-dev") @@ ("quick_dev" :> "quick-flow-solo-dev")

\* the phase methods, by the phase name they report
PhaseMethods ==
    {"bmad_analysis", "bmad_planning", "bmad_solutioning", "bmad_prd_writing",
     "bmad_architecture", "bmad_story_planning", "bmad_quick_spec"}

\* the files the phase methods look at, relative to spec_dir
BriefFile == "bmad/planning/product-brief.md"
PrdFile   == "bmad/planning/prd.md"
ArchFile  == "bmad/planning/architecture.md"
EpicsFile == "bmad/stories/epics.md"
SpecFile  == "spec.md"
PlanPath  == "implementation_plan.json"

\* the key each method passes to PHASE_AGENT_MAP.get
PhaseAgentKey ==
    ("bmad_analysis" :> "product_brief") @@ ("bmad_planning" :> "prd") @@
    ("bmad_solutioning" :> "architecture") @@ ("bmad_prd_writing" :> "prd") @@
    ("bmad_architecture" :> "architecture") @@ ("bmad_story_planning" :> "create_story") @@
    ("bmad_quick_spec" :> "quick_spec")

\* the phase key each method passes to load_workflow
PhaseWorkflowKey ==
    ("bmad_analysis" :> "product_brief") @@ ("bmad_planning" :> "prd") @@
    ("bmad_solutioning" :> "architecture") @@ ("bmad_prd_writing" :> "prd") @@
    ("bmad_architecture" :> "architecture") @@ ("bmad_story_planning" :> "epics_stories") @@
    ("bmad_quick_spec" :> "quick_spec")

\* the methods that call get_checklist
PhaseUsesChecklist == {"bmad_planning", "bmad_prd_writing"}

\* the methods that call create_bmad_structure
PhaseCreatesStructure == PhaseMethods \ {"bmad_planning", "bmad_solutioning"}

\* the text of the error message of a failed attempt, after "Attempt <n>: "
PhaseFailText ==
    ("bmad_analysis" :> "BMAD analysis agent failed") @@
    ("bmad_planning" :> "BMAD PRD agent failed") @@
    ("bmad_solutioning" :> "BMAD solutioning agent failed") @@
    ("bmad_prd_writing" :> "BMAD PRD writing failed") @@
    ("bmad_architecture" :> "BMAD architecture failed") @@
    ("bmad_story_planning" :> "BMAD story planning failed") @@
    ("bmad_quick_spec" :> "BMAD quick spec failed")

\* PhaseResult(phase, success, output_files, errors, retries)
PhaseResult(phase, success, output_files, errors, retries) ==
    [phase |-> phase, success |-> success, output_files |-> output_files,
     errors |-> errors, retries |-> retries]

NoResult == PhaseResult("", FALSE, <<>>, <<>>, 0)

\* (mutant) no phase looks for its output at entry
PhaseSkips_Never(m, fs, pf) == FALSE

\* the check at entry: the output of the phase already exists
PhaseSkips(m, fs, pf) ==
    CASE m = "bmad_analysis" -> BriefFile \in DOMAIN fs
      [] m \in {"bmad_planning", "bmad_prd_writing"} -> PrdFile \in DOMAIN fs
      [] m = "bmad_solutioning" -> ArchFile \in DOMAIN fs /\ pf.exists
      [] m = "bmad_architecture" -> ArchFile \in DOMAIN fs
      [] m = "bmad_story_planning" -> EpicsFile \in DOMAIN fs /\ pf.exists
      [] m = "bmad_quick_spec" -> SpecFile \in DOMAIN fs /\ pf.exists

\* the output files of the result returned at entry
PhaseSkipOutputs(m) ==
    CASE m = "bmad_analysis" -> <<BriefFile>>
      [] m \in {"bmad_planning", "bmad_prd_writing"} -> <<PrdFile>>
      [] m = "bmad_solutioning" -> <<ArchFile, PlanPath>>
      [] m = "bmad_architecture" -> <<ArchFile>>
      [] m = "bmad_story_planning" -> <<EpicsFile, PlanPath>>
      [] m = "bmad_quick_spec" -> <<SpecFile, PlanPath>>

\* "Load persona": the persona block, or the error that leaves the method
PersonaBlockOf(ag, m) ==
    LET o == LoadPersonaOf(ag, PHASE_AGENT_MAP[PhaseAgentKey[m]]) IN
    IF o.status = "ok" THEN [status |-> "ok", block |-> FormatPersonaBlock(o.persona)]
    ELSE IF o.status = "FileNotFoundError" THEN [status |-> "ok", block |-> ""]
    ELSE [status |-> o.status, block |-> ""]

\* "Load workflow": instructions and checklist, or the error that leaves the method,
\* for each outcome load_workflow may have
WorkflowTextsOf(tree, m) ==
    {IF w.status = "FileNotFoundError"
     THEN [status |-> "ok", instructions |-> StrV(""), checklist |-> StrV("")]
     ELSE IF w.status # "ok"
     THEN [status |-> w.status, instructions |-> StrV(""), checklist |-> StrV("")]
     ELSE LET gi == GetInstructionsOf(tree, w.result)
              gc == IF m \in PhaseUsesChecklist THEN GetChecklistOf(tree, w.result)
                    ELSE [status |-> "ok", value |-> StrV("")]
          IN  IF gi.status # "ok"
              THEN [status |-> gi.status, instructions |-> StrV(""), checklist |-> StrV("")]
              ELSE IF gc.status # "ok"
              THEN [status |-> gc.status, instructions |-> StrV(""), checklist |-> StrV("")]
              ELSE [status |-> "ok", instructions |-> gi.value, checklist |-> gc.value] :
        w \in LoadWorkflowOutcomes(tree, PhaseWorkflowKey[m], None)}

\* the part of a method between its entry check and its loop: the outcomes it may have
PhaseContexts(ag, tree, m) ==
    LET p == PersonaBlockOf(ag, m) IN
    IF p.status # "ok"
    THEN {[status |-> p.status, persona_block |-> "", instructions |-> StrV(""),
           checklist |-> StrV("")]}
    ELSE {[status |-> t.status, persona_block |-> p.block, instructions |-> t.instructions,
           checklist |-> t.checklist] : t \in WorkflowTextsOf(tree, m)}

\* writer.create_minimal_plan(spec_dir, task_description): writes a plan file
CreateMinimalPlan ==
    [exists |-> TRUE, doc |-> JsonDumps(MakePlan(<<>>))]

\* save_artifact(spec_dir, t, c) on fs
SavedFiles(fs, t, c) ==
    WithFile(fs, PathJoin(SaveSubdir(t), ArtifactFileName(t)), WriteText(c))

\* `if success:` of the loop body: whether the method returns, with which output files,
\* what it leaves on disk and which calls of the artifact API it made
PhaseOnSuccess(m, fs, ds, pf) ==
    LET stay == [returns |-> FALSE, output_files |-> <<>>, files |-> fs, dirs |-> ds,
                 plan_file |-> pf, api |-> <<>>]
        done(outs) == [stay EXCEPT !.returns = TRUE, !.output_files = outs]
        saved(t, outs) ==
            [returns |-> TRUE, output_files |-> outs,
             files |-> SavedFiles(fs, t, ReadText(fs[SpecFile])),
             dirs |-> MkdirParents(ds, SaveSubdir(t)), plan_file |-> pf,
             api |-> <<"save_artifact">>]
        converted(outs) ==
            [returns |-> TRUE, output_files |-> outs, files |-> fs, dirs |-> ds,
             plan_file |-> PlanFileAfterWrite(pf, JsonDumps(MakePlan(PlanSubtasks(fs, ds)))),
             api |-> <<"stories_to_implementation_plan">>]
    IN  CASE m = "bmad_analysis" ->
               IF BriefFile \in DOMAIN fs THEN done(<<BriefFile>>)
               ELSE IF SpecFile \in DOMAIN fs THEN saved("product_brief", <<BriefFile>>)
               ELSE stay
          [] m \in {"bmad_planning", "bmad_prd_writing"} ->
               IF SpecFile \in DOMAIN fs THEN saved("prd", <<SpecFile, PrdFile>>)
               ELSE stay
          [] m = "bmad_solutioning" ->
               IF pf.exists THEN done(<<ArchFile, PlanPath>>)
               ELSE IF EpicsFile \in DOMAIN fs THEN converted(<<PlanPath>>)
               ELSE stay
          [] m = "bmad_architecture" ->
               IF ArchFile \in DOMAIN fs THEN done(<<ArchFile>>)
               ELSE IF SpecFile \in DOMAIN fs
                       /\ Contains(Lower(ReadText(fs[SpecFile])), "architecture")
               THEN saved("architecture", <<ArchFile>>)
               ELSE stay
          [] m = "bmad_story_planning" ->
               IF pf.exists THEN done(<<EpicsFile, PlanPath>>)
               ELSE IF EpicsFile \in DOMAIN fs THEN converted(<<EpicsFile, PlanPath>>)
               ELSE stay
          [] m = "bmad_quick_spec" ->
               IF SpecFile \in DOMAIN fs
               THEN [done(<<SpecFile, PlanPath>>) EXCEPT
                        !.plan_file = IF pf.exists THEN pf ELSE CreateMinimalPlan]
               ELSE stay

\* f"Attempt {attempt + 1}: ..."
AttemptError(m, att) == "Attempt " \o Decimal(att + 1) \o ": " \o PhaseFailText[m]

\* (mutant) the loop runs one more time
LoopContinues_OneMore(att) == att < MAX_RETRIES

\* for attempt in range(MAX_RETRIES): there is another iteration after attempt att
LoopContinues(att) == att + 1 < MAX_RETRIES

\* the locals of a phase method and how it ended: calls counts the run_agent_fn calls,
\* api lists the calls of the artifact API made since the last agent call returned
Frame(m) ==
    [method |-> m, persona_block |-> "", instructions |-> StrV(""), checklist |-> StrV(""),
     errors |-> <<>>, calls |-> 0, success |-> FALSE, api |-> <<>>,
     result |-> NoResult, exc |-> ""]

\* A phase method is called and runs up to its first run_agent_fn call, or to its end
PhaseCall(m) ==
    /\ phase_pc \in {"idle", "returned", "raised"}
    /\ attempt' = 0
    /\ IF PhaseSkips(m, files, plan_file)
       THEN /\ phase_pc' = "returned"
            /\ ph' = [Frame(m) EXCEPT
                         !.result = PhaseResult(m, TRUE, PhaseSkipOutputs(m), <<>>, 0)]
            /\ dirs' = dirs
       ELSE /\ dirs' = IF m \in PhaseCreatesStructure
                       THEN dirs \cup {BmadRoot} \cup StructureDirs ELSE dirs
            /\ \E c \in PhaseContexts(agents, wfs, m) :
                  IF c.status # "ok"
                  THEN /\ phase_pc' = "raised"
                       /\ ph' = [Frame(m) EXCEPT !.exc = c.status]
                  ELSE IF MAX_RETRIES = 0
                  THEN /\ phase_pc' = "returned"
                       /\ ph' = [Frame(m) EXCEPT
                                    !.result = PhaseResult(m, FALSE, <<>>, <<>>, MAX_RETRIES)]
                  ELSE /\ phase_pc' = "awaiting"
                       /\ ph' = [Frame(m) EXCEPT
                                    !.persona_block = c.persona_block,
                                    !.instructions = c.instructions,
                                    !.checklist = c.checklist,
                                    !.calls = 1]
    /\ UNCHANGED <<files, plan_file, op, parseVars, wfVars, agents>>

\* (mutant) the success branch is taken whatever the agent call reported
AgentReturns_IgnoresSuccess(success) ==
    /\ phase_pc = "awaiting"
    /\ LET m  == ph.method
           on == PhaseOnSuccess(m, files, dirs, plan_file)
       IN  IF on.returns
           THEN /\ files' = on.files /\ dirs' = on.dirs /\ plan_file' = on.plan_file
                /\ phase_pc' = "returned"
                /\ attempt' = attempt
                /\ ph' = [ph EXCEPT !.success = success, !.api = on.api,
                             !.result = PhaseResult(m, TRUE, on.output_files, <<>>, attempt)]
           ELSE LET errors == Append(ph.errors, AttemptError(m, attempt)) IN
                /\ UNCHANGED <<files, dirs, plan_file>>
                /\ IF LoopContinues(attempt)
                   THEN /\ phase_pc' = "awaiting"
                        /\ attempt' = attempt + 1
                        /\ ph' = [ph EXCEPT !.success = success, !.api = <<>>,
                                     !.errors = errors, !.calls = @ + 1]
                   ELSE /\ phase_pc' = "returned"
                        /\ attempt' = attempt
                        /\ ph' = [ph EXCEPT !.success = success, !.api = <<>>,
                                     !.errors = errors,
                                     !.result = PhaseResult(m, FALSE, <<>>, errors, MAX_RETRIES)]
    /\ UNCHANGED <<op, parseVars, wfVars, agents>>

\* run_agent_fn returns (success, output) and the method runs on to its next
\* run_agent_fn call or to its end
AgentReturns(success) ==
    /\ phase_pc = "awaiting"
    /\ LET m  == ph.method
           on == PhaseOnSuccess(m, files, dirs, plan_file)
       IN  IF success /\ on.returns
           THEN /\ files' = on.files /\ dirs' = on.dirs /\ plan_file' = on.plan_file
                /\ phase_pc' = "returned"
                /\ attempt' = attempt
                /\ ph' = [ph EXCEPT !.success = success, !.api = on.api,
                             !.result = PhaseResult(m, TRUE, on.output_files, <<>>, attempt)]
           ELSE LET errors == Append(ph.errors, AttemptError(m, attempt)) IN
                /\ UNCHANGED <<files, dirs, plan_file>>
                /\ IF LoopContinues(attempt)
                   THEN /\ phase_pc' = "awaiting"
                        /\ attempt' = attempt + 1
                        /\ ph' = [ph EXCEPT !.success = success, !.api = <<>>,
                                     !.errors = errors, !.calls = @ + 1]
                   ELSE /\ phase_pc' = "returned"
                        /\ attempt' = attempt
                        /\ ph' = [ph EXCEPT !.success = success, !.api = <<>>,
                                     !.errors = errors,
                                     !.result = PhaseResult(m, FALSE, <<>>, errors, MAX_RETRIES)]
    /\ UNCHANGED <<op, parseVars, wfVars, agents>>

\* While the method waits, or before a phase runs, the agent collaborator writes a file
AgentWorks(path, c) ==
    /\ phase_pc \in {"idle", "awaiting"}
    /\ path \notin DOMAIN files
    /\ files' = WithFile(files, path, c)
    /\ dirs' = IF PathParent(path) = "" THEN dirs ELSE MkdirParents(dirs, PathParent(path))
    /\ UNCHANGED <<plan_file, op, parseVars, wfVars, phaseVars>>

\* ... or the implementation plan
AgentWritesPlan ==
    /\ phase_pc \in {"idle", "awaiting"}
    /\ ~plan_file.exists
    /\ plan_file' = [exists |-> TRUE, doc |-> JsonDumps(MakePlan(<<>>))]
    /\ UNCHANGED <<files, dirs, op, parseVars, wfVars, phaseVars>>

\* ---- inputs of the phase specification: what the agents directory and the workflow
\* tree hold, and what the agent writes
SamplePersona ==
    [metadata |-> ("name" :> "Mary") @@ ("title" :> "Analyst"),
     persona |-> ("role" :> "Analyst") @@ ("identity" :> "Senior\n analyst "),
     critical_actions |-> <<>>]

AgentStems == {PHASE_AGENT_MAP[k] : k \in DOMAIN PHASE_AGENT_MAP}

\* every agent file is there and well-formed; none is there; every file is malformed;
\* every file is empty
AgentsDirs ==
    {[a \in AgentStems |-> [form |-> "mapping", agent |-> SamplePersona]],
     <<>>,
     [a \in AgentStems |-> [form |-> "malformed", agent |-> SamplePersona]],
     [a \in AgentStems |-> [form |-> "empty", agent |-> SamplePersona]]}

PhaseWorkflowDirs ==
    {PathJoin(PathJoin(WorkflowsRoot, PHASE_WORKFLOW_MAP[PhaseWorkflowKey[m]][1]),
              PHASE_WORKFLOW_MAP[PhaseWorkflowKey[m]][2]) : m \in PhaseMethods}

\* the workflow directories of the phases: all missing; all with a definition, an
\* instructions file and a checklist; all with a malformed definition; all with a
\* definition whose instructions reference ends in "/"
PhaseTrees ==
    {<<>>,
     [d \in PhaseWorkflowDirs |->
        [entries |-> EntriesOf({"workflow.yaml", "instructions.md", "checklist.md"}),
         yaml |-> NoYaml]],
     [d \in PhaseWorkflowDirs |->
        [entries |-> EntriesOf({"workflow.yaml"}),
         yaml |-> [form |-> "malformed", data |-> <<>>]]],
     [d \in PhaseWorkflowDirs |->
        [entries |-> EntriesOf({"workflow.yaml"}),
         yaml |-> [form |-> "mapping", data |-> ("instructions" :> StrV("docs/"))]]]}

AgentFiles ==
    {<<SpecFile, "Architecture: x">>, <<SpecFile, "Spec">>, <<BriefFile, "brief">>,
     <<ArchFile, "arch">>, <<EpicsFile, "## S\n- t">>}

InitPhase ==
    /\ StoreIdle /\ ParseIdle
    /\ wfs \in PhaseTrees /\ workflow = [name |-> "none"] /\ got = [name |-> "none"]
    /\ agents \in AgentsDirs
    /\ phase_pc = "idle" /\ attempt = 0 /\ ph = [method |-> "none"]

NextPhase ==
    \/ \E m \in PhaseMethods : PhaseCall(m)
    \/ \E success \in BOOLEAN : AgentReturns(success)
    \/ \E f \in AgentFiles : AgentWorks(f[1], f[2])
    \/ AgentWritesPlan

\* the agent call returns: the loop variable or the position of the method changes
PhaseProgress ==
    /\ phase_pc = "awaiting"
    /\ \/ attempt' = attempt + 1 /\ phase_pc' = "awaiting"
       \/ attempt' = attempt /\ phase_pc' = "returned"

SpecPhase ==
    InitPhase /\ [][NextPhase]_vars /\ WF_<<attempt, phase_pc>>(PhaseProgress)

-----------------------------------------------------------------------------
(* Claims about the artifact store and the plan builder.                    *)

\* C1: round trip. save_artifact(dir, type, content) immediately followed by
\* load_artifact(dir, type) returns exactly content, for every recognized type and
\* every custom type string, in any state reached by earlier save_artifact calls.
C1_RoundTrip ==
    [][(/\ op.name = "save_artifact"
        /\ op'.name = "load_artifact"
        /\ op'.type = op.type)
       => (op'.ret.found /\ op'.ret.text = op.content)]_vars

\* The ids the spec gives to the subtasks at positions 1, 2, ...
ExpectedIds ==
    <<"bmad-001", "bmad-002", "bmad-003", "bmad-004", "bmad-005", "bmad-006",
      "bmad-007", "bmad-008", "bmad-009", "bmad-010", "bmad-011", "bmad-012",
      "bmad-013", "bmad-014", "bmad-015", "bmad-016", "bmad-017", "bmad-018">>

\* C2: in the plan returned by stories_to_implementation_plan the subtask at position i
\* has id "bmad-" followed by i zero-padded to 3 digits (unique, consecutive, from 001),
\* across the consolidated source and all individual story files.
C2_PlanIdsConsecutive ==
    op.name = "stories_to_implementation_plan" =>
        \A i \in 1..Len(op.ret.subtasks) : op.ret.subtasks[i].id = ExpectedIds[i]

\* C2 witness: a plan whose subtasks come from the consolidated source and from two
\* individual story files, with ids that reach two digits
C2_Witness ==
    /\ op.name = "stories_to_implementation_plan"
    /\ SourceOf(files) # ""
    /\ Len(StoryFilesOf(files)) >= 3
    /\ Len(op.ret.subtasks) >= 10

\* C10: source selection. Whenever the consolidated "stories" artifact is present
\* (load_artifact does not return None) the source text is that artifact; the "epics"
\* artifact is the source only when "stories" is absent; with both absent it is empty.
C10_SourceSelection ==
    op.name = "stories_to_implementation_plan" =>
        LET st == LoadArtifactFrom(files, "stories")
            ep == LoadArtifactFrom(files, "epics")
        IN  /\ st.found => op.source_content = st.text
            /\ (~st.found /\ ep.found) => op.source_content = ep.text
            /\ (~st.found /\ ~ep.found) => op.source_content = ""

\* The story headings of each sample text written to the stories directory
C11_HeadingsOf(text) ==
    CASE text = "## A\nbody" -> {"A"}
      [] text = "## B\nx\n\ty\n### C\n" -> {"B", "C"}
      [] text = "## D\n" -> {"D"}
      [] text = "x\n## E\n## F\n## G\n## H\n## I" -> {"E", "F", "G", "H", "I"}
      [] OTHER -> {}

\* C11: after every call of stories_to_implementation_plan that returns,
\* implementation_plan.json exists and holds exactly the returned plan; every subtask in
\* it comes from a story artifact that exists now, so nothing of the plan the call found
\* survives, also when the new plan has no subtasks.
C11_PlanOverwritten ==
    op.name = "stories_to_implementation_plan" =>
        /\ plan_file.exists
        /\ JsonLoads(plan_file.doc) = op.ret
        /\ \A i \in 1..Len(plan_file.doc.subtasks) :
              JsonLoads(plan_file.doc).subtasks[i].description
                  \in UNION {C11_HeadingsOf(files[f]) : f \in DOMAIN files}

\* C11 witness: the call found a plan with subtasks and left a plan with none
C11_Witness ==
    /\ op.name = "stories_to_implementation_plan"
    /\ op.prior.exists
    /\ \E i \in 1..Len(op.prior.doc.subtasks) : op.prior.doc.subtasks[i].details = "x\\n\\ty"
    /\ plan_file.exists
    /\ Len(plan_file.doc.subtasks) = 0

-----------------------------------------------------------------------------
(* Claims about the story parser.                                           *)

\* What the spec says of each sample line: the description of the story it opens, or
\* "" when it is not a level-2/3 heading or its text contains an exclusion keyword
C3_StoryOf ==
    [l \in SampleLines |->
        CASE l = "## Story One" -> "Story One"
          [] l = "### User Acceptance" -> "User Acceptance"
          [] OTHER -> ""]

RECURSIVE C3_ExpectedDescriptions(_)
C3_ExpectedDescriptions(ls) ==
    IF Len(ls) = 0 THEN <<>>
    ELSE (IF C3_StoryOf[Head(ls)] # "" THEN <<C3_StoryOf[Head(ls)]>> ELSE <<>>)
         \o C3_ExpectedDescriptions(Tail(ls))

C3_Descriptions(sts) == [i \in 1..Len(sts) |-> sts[i].description]

\* C3: the parser emits exactly one subtask per level-2/3 heading line whose text
\* contains none of the exclusion keywords (case-insensitive), in document order, with
\* description the trimmed heading text; an excluded heading never becomes a subtask.
C3_OneSubtaskPerStoryHeading ==
    /\ pc = "done" => C3_Descriptions(subtasks) = C3_ExpectedDescriptions(lines)
    /\ pc = "loop" =>
          C3_Descriptions(subtasks) \o (IF current_heading # "" THEN <<current_heading>> ELSE <<>>)
              = C3_ExpectedDescriptions(SubSeq(lines, 1, pos))

\* C3 witness: a finished parse of a document with two story headings and an excluded
\* heading between them
C3_Witness ==
    /\ pc = "done"
    /\ Len(lines) = 4
    /\ lines[1] = "## Story One" /\ lines[2] = "### Tasks" /\ lines[3] = "### User Acceptance"
    /\ Len(subtasks) = 2

\* What the spec says of each sample line
C4_BulletLines == {"- item"}
C4_InlineLines == {"Given x"}

C4_Step ==
    (pc = "loop" /\ pos' = pos + 1) =>
        LET line == lines[pos + 1] IN
        /\ Len(current_ac') > Len(current_ac) =>
              \/ line \in C4_BulletLines /\ in_ac_section
              \/ line \in C4_InlineLines
        /\ (/\ line \in C4_BulletLines /\ line \notin C4_InlineLines
            /\ current_heading # "" /\ ~in_ac_section)
           => /\ current_body_lines' = Append(current_body_lines, line)
              /\ current_ac' = current_ac
        /\ Len(subtasks') > Len(subtasks) =>
              /\ SubSeq(subtasks', 1, Len(subtasks)) = subtasks
              /\ Len(subtasks') = Len(subtasks) + 1
              /\ subtasks'[Len(subtasks')].acceptance_criteria = current_ac

\* C4: a line is added to the acceptance criteria only if it is a bullet line read while
\* in_ac_section is true, or an inline "ac:" / "given " line; a bullet read while a story
\* is open and in_ac_section is false is appended to the body and is never a criterion.
C4_CriteriaOnlyFromAcLines == [][C4_Step]_vars

\* C4 witness: one story in which the same bullet line was read outside the acceptance
\* section (body) and inside it (criterion)
C4_Witness ==
    /\ pc = "done"
    /\ Len(subtasks) = 1
    /\ subtasks[1].details = "- item"
    /\ subtasks[1].acceptance_criteria = <<"item">>

-----------------------------------------------------------------------------
(* Claims about the workflow resolver.                                      *)

\* What the spec says of each sample reference value: its last path segment, as a
\* one-element sequence (none for a value that is not a string)
C5_SegmentOf(v) ==
    CASE v = StrV("custom.md") -> <<"custom.md">>
      [] v = StrV("{root}/x/custom.md") -> <<"custom.md">>
      [] v = StrV("{installed_path}/checklist.md") -> <<"checklist.md">>
      [] v = StrV("docs/") -> <<"">>
      [] OTHER -> <<>>

\* The three references: the key of the result, the candidate YAML keys, the convention
\* list of the key category, and the sample entry names the glob patterns match
C5_References ==
    {[path_key |-> "instructions_path", keys |-> <<"instructions">>,
      convention |-> <<"instructions.xml", "instructions.md">>,
      globbed |-> {"instructions.md"}],
     [path_key |-> "checklist_path", keys |-> <<"validation", "checklist">>,
      convention |-> <<"checklist.md", "validation.md">>,
      globbed |-> {"checklist.md", "validation.md", "my-checklist.md", "old-checklist.md"}],
     [path_key |-> "template_path", keys |-> <<"template">>,
      convention |-> <<"template.md">>,
      globbed |-> {"template.md"}]}

\* the loaded data of the workflow directory
C5_Data(dir) ==
    IF "workflow.yaml" \in DOMAIN wfs[dir].entries THEN wfs[dir].yaml.data ELSE <<>>

\* workflow_dir/segment; the empty segment is the directory itself
C5_At(dir, n) == IF n = "" THEN dir ELSE dir \o "/" \o n

C5_Resolved(r) ==
    LET dir     == workflow.out.dir
        names   == DOMAIN wfs[dir].entries
        data    == C5_Data(dir)
        seg(i)  == C5_SegmentOf(data[r.keys[i]])
        step1   == {i \in 1..Len(r.keys) :
                       /\ r.keys[i] \in DOMAIN data
                       /\ seg(i) # <<>>
                       /\ seg(i)[1] = "" \/ seg(i)[1] \in names}
        step2   == {i \in 1..Len(r.convention) : r.convention[i] \in names}
        step3   == r.globbed \cap names
        p       == workflow.out.result[r.path_key]
    IN  IF step1 # {} THEN p = PathV(C5_At(dir, seg(Min(step1))[1]))
        ELSE IF step2 # {} THEN p = PathV(C5_At(dir, r.convention[Min(step2)]))
        ELSE IF step3 # {} THEN \E n \in step3 : p = PathV(C5_At(dir, n))
        ELSE p = NoneV

C6_Bare(v) ==
    CASE v = StrV("{root}/x/custom.md") -> StrV("custom.md")
      [] v = StrV("{installed_path}/checklist.md") -> StrV("checklist.md")
      [] OTHER -> v

\* the workflow tree with every prefixed reference value replaced by its bare value
C6_BareTree ==
    [d \in DOMAIN wfs |->
        [wfs[d] EXCEPT !.yaml.data = [k \in DOMAIN @ |-> C6_Bare(@[k])]]]

C6_Paths(result) ==
    [k \in {"instructions_path", "checklist_path", "template_path"} |-> result[k]]

\* C6: prefix stripping. The paths load_workflow resolves with reference values of the
\* form <prefix>/<name> (<name> a file name) are the paths it resolves with the bare
\* values <name>; and with checklist.md in the directory and
\* validation: "{installed_path}/checklist.md", checklist_path is workflow_dir/checklist.md.
C6_PrefixStripping ==
    Loaded =>
        /\ \E o \in LoadWorkflowOutcomes(C6_BareTree, workflow.phase, workflow.workflow_name) :
              o.status = "ok" /\ C6_Paths(o.result) = C6_Paths(workflow.out.result)
        /\ (/\ "checklist.md" \in DOMAIN wfs[workflow.out.dir].entries
            /\ "validation" \in DOMAIN C5_Data(workflow.out.dir)
            /\ C5_Data(workflow.out.dir)["validation"] = StrV("{installed_path}/checklist.md"))
           => workflow.out.result["checklist_path"]
                  = PathV("workflows/1-analysis/research/checklist.md")

\* C6 witness: template: "{root}/x/custom.md" with custom.md in the directory and no
\* template.md; the template path is workflow_dir/custom.md
C6_Witness ==
    /\ Loaded
    /\ "template" \in DOMAIN C5_Data(workflow.out.dir)
    /\ C5_Data(workflow.out.dir)["template"] = StrV("{root}/x/custom.md")
    /\ "template.md" \notin DOMAIN wfs[workflow.out.dir].entries
    /\ workflow.out.result["template_path"] = PathV("workflows/1-analysis/research/custom.md")

\* C7: for every workflow returned by load_workflow, get_instructions, get_checklist and
\* get_template each return a string and never fail, and return the empty string when
\* the content is missing (no resolved path and, for the instructions, no workflow_content).
C7_GettersTotal ==
    got.name \in {"get_instructions", "get_checklist", "get_template"} =>
        /\ got.out.status = "ok"
        /\ got.out.value.kind = "str"
        /\ (/\ got.name = "get_checklist"
            /\ workflow.out.result["checklist_path"] = NoneV) => got.out.value = StrV("")
        /\ (/\ got.name = "get_template"
            /\ workflow.out.result["template_path"] = NoneV) => got.out.value = StrV("")
        /\ (/\ got.name = "get_instructions"
            /\ workflow.out.result["instructions_path"] = NoneV
            /\ "workflow_content" \notin DOMAIN workflow.out.result) => got.out.value = StrV("")

\* no workflow name and a phase that is no key of PHASE_WORKFLOW_MAP
C8_NameRequired ==
    ~workflow.workflow_name.found /\ workflow.phase \notin DOMAIN PHASE_WORKFLOW_MAP

\* root/phaseDir/workflowName of the sample calls that pass the name check
C8_TargetDir ==
    CASE workflow.workflow_name.found ->
             "workflows/" \o workflow.phase \o "/" \o workflow.workflow_name.text
      [] ~workflow.workflow_name.found /\ workflow.phase = "research" ->
             "workflows/1-analysis/research"
      [] ~workflow.workflow_name.found /\ workflow.phase = "prd" ->
             "workflows/2-planning/create-prd"

\* C8: load_workflow raises ValueError exactly when no workflow name is supplied and the
\* phase is no key of PHASE_WORKFLOW_MAP, before any file system access; otherwise it
\* raises FileNotFoundError exactly when root/phaseDir/workflowName is not an existing
\* directory; neither error is raised in any other case.
C8_ErrorsExactly ==
    workflow.name = "load_workflow" =>
        /\ (workflow.out.status = "ValueError") <=> C8_NameRequired
        /\ workflow.out.status = "ValueError" => ~workflow.out.fs_probed
        /\ ~C8_NameRequired =>
              ((workflow.out.status = "FileNotFoundError") <=> (C8_TargetDir \notin DOMAIN wfs))

\* C8 witness: a named workflow under a phase directory that exists, while the workflow
\* directory itself does not; the call fails with FileNotFoundError
C8_Witness ==
    /\ workflow.name = "load_workflow"
    /\ workflow.phase = "1-analysis" /\ workflow.workflow_name = Some("custom")
    /\ "workflows/1-analysis/research" \in DOMAIN wfs
    /\ "workflows/1-analysis/custom" \notin DOMAIN wfs
    /\ workflow.out.status = "FileNotFoundError"

\* C9: with no workflow name and a phase that is a key of PHASE_WORKFLOW_MAP, the phase
\* directory and the workflow name both come from the table entry of that key; with a
\* workflow name supplied, the phase is used literally as the phase directory, even when
\* it is a key of the table.
C9_DirFromTableOrLiteral ==
    (workflow.name = "load_workflow" /\ workflow.out.status # "ValueError") =>
        workflow.out.dir =
            IF workflow.workflow_name.found
            THEN "workflows/" \o workflow.phase \o "/" \o workflow.workflow_name.text
            ELSE "workflows/" \o PHASE_WORKFLOW_MAP[workflow.phase][1]
                     \o "/" \o PHASE_WORKFLOW_MAP[workflow.phase][2]

\* C9 witness: the table key "research" with the explicit name "custom" loads
\* workflows/research/custom, although the table maps the key to 1-analysis/research
\* and that directory exists too
C9_Witness ==
    /\ workflow.name = "load_workflow"
    /\ workflow.phase = "research" /\ workflow.workflow_name = Some("custom")
    /\ "workflows/1-analysis/research" \in DOMAIN wfs
    /\ workflow.out.status = "ok"
    /\ workflow.out.dir = "workflows/research/custom"

-----------------------------------------------------------------------------
(* Further claims about the story parser.                                   *)

\* the sample lines that are level-2 or level-3 heading lines
C12_HeadingLines ==
    {"## Story One", "### User Acceptance", "### Acceptance Criteria", "### Tasks"}

\* the loop never runs past the last line (so one of ParseIter, ParseReturn is enabled
\* while the call runs); when the call has returned, every line was read, and a
\* document without a level-2/3 heading line gave no subtask
C12_Returned ==
    /\ pc = "loop" => pos <= Len(lines)
    /\ pc = "done" =>
          /\ pos = Len(lines)
          /\ (\A i \in 1..Len(lines) : lines[i] \notin C12_HeadingLines) => subtasks = <<>>

\* C12: _parse_stories_from_markdown is total: on every input it returns after one
\* forward pass over the lines (each step reads the next line, none is read twice), and
\* a document with no level-2 or level-3 heading line yields zero subtasks.
C12_ParserTotal ==
    /\ (pc = "loop") ~> (pc = "done")
    /\ [][pos' = pos \/ pos' = pos + 1]_vars
    /\ []C12_Returned

\* C12 witness: a returned call on a four-line document with a deeper heading, bullets
\* and an inline criterion but no level-2/3 heading: no subtasks
C12_Witness ==
    /\ pc = "done"
    /\ lines = <<"#### Deep", "- item", "Given x", "- item">>
    /\ subtasks = <<>>

-----------------------------------------------------------------------------
(* Further claims about the artifact store.                                 *)

\* The file name of each sample type: the mapped name, or <type>.md
C13_FileNameOf(t) ==
    CASE t = "product_brief" -> "product-brief.md"
      [] t = "product-brief" -> "product-brief.md"
      [] t = "stories" -> "stories.md"
      [] t = "qa-report" -> "qa-report.md"

\* the four places load_artifact looks in, in order
C13_Places == <<"bmad/planning/", "bmad/stories/", "bmad/reviews/", "bmad/">>

\* C13: load_artifact returns the content of the first existing candidate file in the
\* order bmad/planning, bmad/stories, bmad/reviews, bmad root, and returns None exactly
\* when none of the four candidates exists.
C13_FirstCandidate ==
    op.name = "load_artifact" =>
        LET at(i) == C13_Places[i] \o C13_FileNameOf(op.type)
            there == {i \in 1..4 : at(i) \in DOMAIN files}
        IN  /\ (there = {}) <=> ~op.ret.found
            /\ there # {} =>
                  \E i \in there :
                     /\ \A j \in there : i <= j
                     /\ op.ret.text = ReadText(files[at(i)])

\* C13 witness: the custom type "product-brief" was saved to bmad/reviews, the agent
\* placed a file of that name in bmad/stories and another in the bmad root, and no such
\* file is in bmad/planning; load_artifact returns the one in bmad/stories
C13_Witness ==
    /\ op.name = "load_artifact" /\ op.type = "product-brief"
    /\ "bmad/planning/product-brief.md" \notin DOMAIN files
    /\ {"bmad/stories/product-brief.md", "bmad/reviews/product-brief.md",
        "bmad/product-brief.md"} \subseteq DOMAIN files
    /\ files["bmad/reviews/product-brief.md"] = "one"
    /\ op.ret = Some("three")

\* The (subdirectory, filename) pair of each recognized type
C14_Places ==
    ("product_brief" :> "bmad/planning/product-brief.md") @@
    ("prd" :> "bmad/planning/prd.md") @@
    ("ux_design" :> "bmad/planning/ux-design.md") @@
    ("architecture" :> "bmad/planning/architecture.md") @@
    ("readiness_report" :> "bmad/planning/readiness-report.md") @@
    ("epics" :> "bmad/stories/epics.md") @@
    ("stories" :> "bmad/stories/stories.md") @@
    ("sprint_plan" :> "bmad/stories/sprint-plan.md")

C14_PlaceOf(t) ==
    IF t \in DOMAIN C14_Places THEN C14_Places[t] ELSE "bmad/reviews/" \o t \o ".md"

\* a save_artifact step writes the file of its type and no other
C14_Step ==
    op'.name = "save_artifact" =>
        LET place == C14_PlaceOf(op'.type) IN
        /\ op'.ret = place
        /\ place \in DOMAIN files'
        /\ files'[place] = op'.content
        /\ \A q \in DOMAIN files' \ {place} : q \in DOMAIN files /\ files'[q] = files[q]

\* C14: save_artifact writes each of the 8 recognized types to exactly one
\* (subdirectory, filename) pair, the subdirectory one of planning, stories, reviews,
\* distinct recognized types to distinct files; every unrecognized type is written to
\* reviews/<type>.md.
C14_SavePlaces ==
    /\ [][C14_Step]_vars
    /\ [](\A t1, t2 \in DOMAIN C14_Places : t1 # t2 => C14_Places[t1] # C14_Places[t2])
    /\ [](Cardinality(DOMAIN C14_Places) = 8 /\ DOMAIN C14_Places = DOMAIN ARTIFACT_FILES)

\* C14 witness: sprint_plan was saved to bmad/stories/sprint-plan.md beside the custom
\* type "product-brief" in bmad/reviews/product-brief.md
C14_Witness ==
    /\ op.name = "save_artifact" /\ op.type = "sprint_plan"
    /\ op.ret = "bmad/stories/sprint-plan.md"
    /\ DOMAIN files = {"bmad/stories/sprint-plan.md", "bmad/reviews/product-brief.md"}

C15_ApiCalls ==
    {"save_artifact", "load_artifact", "create_bmad_structure",
     "stories_to_implementation_plan"}

\* what a call of the artifact API does to the files below bmad/
C15_Step ==
    /\ op'.name \in C15_ApiCalls => \A q \in DOMAIN files : q \in DOMAIN files'
    /\ op'.name \in C15_ApiCalls \ {"save_artifact"} => files' = files
    /\ op'.name = "save_artifact" =>
          /\ op'.ret \in DOMAIN files'
          /\ files'[op'.ret] = op'.content
          /\ \A q \in DOMAIN files \ {op'.ret} : files'[q] = files[q]
          /\ DOMAIN files' = DOMAIN files \cup {op'.ret}

\* C15: overwrite semantics. A save_artifact call leaves the file of its type holding
\* exactly the saved content (nothing appended, no version kept) and every other file
\* as it was; no call of save_artifact, load_artifact, create_bmad_structure or
\* stories_to_implementation_plan changes another file or removes one: so after any
\* sequence of calls the file of a type holds the content of its most recent save.
C15_OverwriteSemantics == [][C15_Step]_vars

\* C15 witness: the stories artifact holds "one", the content of the last save, while
\* the plan built before it still shows the story "S" of the content saved earlier
C15_Witness ==
    /\ op.name = "save_artifact" /\ op.type = "stories" /\ op.content = "one"
    /\ files["bmad/stories/stories.md"] = "one"
    /\ plan_file.exists
    /\ Len(plan_file.doc.subtasks) = 1
    /\ plan_file.doc.subtasks[1].description = "S"

\* the subdirectories of bmad/ that exist
C16_Subdirs(ds) == {d \in ds : PathParent(d) = "bmad"}

C16_Step ==
    op'.name = "create_bmad_structure" =>
        /\ "bmad" \in dirs'
        /\ C16_Subdirs(dirs') = {"bmad/planning", "bmad/stories", "bmad/reviews"}
        /\ files' = files
        /\ C16_Subdirs(dirs) = {"bmad/planning", "bmad/stories", "bmad/reviews"} => dirs' = dirs

\* C16: create_bmad_structure is idempotent: whatever was created before, a call leaves
\* exactly the subdirectories bmad/planning, bmad/stories and bmad/reviews present,
\* changes nothing when they are all there already, and leaves every artifact file
\* under bmad/ as it was.
C16_CreateIdempotent == [][C16_Step]_vars

\* C16 witness: create_bmad_structure was called on a directory in which a saved
\* artifact existed; the three subdirectories are there and the file is as it was
C16_Witness ==
    /\ op.name = "create_bmad_structure"
    /\ "bmad/reviews/qa-report.md" \in DOMAIN files
    /\ files["bmad/reviews/qa-report.md"] = "## S\ntwo"
    /\ {"bmad/planning", "bmad/stories", "bmad/reviews"} \subseteq dirs

-----------------------------------------------------------------------------
(* Further claims about the workflow resolver.                              *)

\* the file names of the model in lexicographic (code point) order
C17_Sorted ==
    <<"checklist.md", "custom.md", "instructions.md", "my-checklist.md",
      "old-checklist.md", "template.md", "validation.md", "workflow.md", "workflow.yaml">>

C17_LexFirst(names) == C17_Sorted[Min({i \in 1..Len(C17_Sorted) : C17_Sorted[i] \in names})]

\* the reference of the keys, stored under slot, when only the glob fallback finds files
C17_GlobResult(keys, conventions, slot) ==
    LET E == DOMAIN wfs[workflow.out.dir].entries
        M == {n \in E : \E k \in keys, ext \in {".md", ".xml"} : GlobMatch(n, k, ext)}
    IN  (/\ \A k \in keys : DictGet(workflow.out.result, k).kind # "str"
         /\ conventions \cap E = {}
         /\ Cardinality(M) >= 2)
        => workflow.out.result[slot] = PathV(PathJoin(workflow.out.dir, C17_LexFirst(M)))

\* C17: glob fallback. When no explicit key and no convention filename resolves a
\* reference and several files of the workflow directory match *<key>*.md or
\* *<key>*.xml, the resolved path is the lexicographically first match, whatever the
\* order in which the file system enumerates the directory.
C17_GlobLexFirst ==
    Loaded =>
        /\ C17_GlobResult({"instructions"}, {"instructions.xml", "instructions.md"},
                          "instructions_path")
        /\ C17_GlobResult({"validation", "checklist"}, {"checklist.md", "validation.md"},
                          "checklist_path")
        /\ C17_GlobResult({"template"}, {"template.md"}, "template_path")

\* C18: markdown-only workflows. For a workflow directory with workflow.md and without
\* workflow.yaml, load_workflow stores the text of workflow.md under workflow_content
\* and leaves instructions_path, checklist_path and template_path absent (None),
\* whatever other files the directory contains.
C18_MarkdownOnly ==
    LET E == wfs[workflow.out.dir].entries IN
    (Loaded /\ "workflow.md" \in DOMAIN E /\ "workflow.yaml" \notin DOMAIN E) =>
        /\ workflow.out.result["workflow_content"] = StrV(E["workflow.md"].text)
        /\ workflow.out.result["instructions_path"] = NoneV
        /\ workflow.out.result["checklist_path"] = NoneV
        /\ workflow.out.result["template_path"] = NoneV

C19_PathSlots == {"instructions_path", "checklist_path", "template_path"}

\* C19: definition precedence. When workflow.yaml exists, with or without workflow.md
\* beside it, only workflow.yaml drives the result: its top-level keys are merged, and
\* workflow_content is in the result only as a key of the YAML, never as the text of
\* workflow.md (which is read only when workflow.yaml does not exist).
C19_YamlPrecedence ==
    LET d == wfs[workflow.out.dir]
        result == workflow.out.result
    IN  (Loaded /\ "workflow.yaml" \in DOMAIN d.entries) =>
            /\ \A k \in DOMAIN d.yaml.data \ C19_PathSlots : result[k] = d.yaml.data[k]
            /\ DOMAIN result = {"workflow_dir"} \cup DOMAIN d.yaml.data \cup C19_PathSlots
            /\ "workflow_content" \in DOMAIN result =>
                  result["workflow_content"] = d.yaml.data["workflow_content"]

\* C19 witness: a directory with both definition files was loaded; the key of the YAML
\* is in the result and workflow_content is not
C19_Witness ==
    /\ Loaded
    /\ {"workflow.yaml", "workflow.md"} \subseteq DOMAIN wfs[workflow.out.dir].entries
    /\ workflow.out.result["instructions"] = StrV("custom.md")
    /\ "workflow_content" \notin DOMAIN workflow.out.result

\* the text of the file at path p of the workflow tree (None: there is no file at p)
C20_FileText(p) ==
    IF /\ PathParent(p) \in DOMAIN wfs
       /\ PathName(p) \in DOMAIN wfs[PathParent(p)].entries
       /\ wfs[PathParent(p)].entries[PathName(p)].kind = "file"
    THEN StrV(wfs[PathParent(p)].entries[PathName(p)].text)
    ELSE NoneV

\* the getter of slot returned the content at the resolved, existing path, or the
\* fallback when no path was resolved
C20_ReadsSlot(slot, fallback) ==
    LET path == workflow.out.result[slot] IN
    /\ (path.kind = "path" /\ PathExists(wfs, path.s)) =>
          got.out = [status |-> "ok", value |-> C20_FileText(path.s)]
    /\ path = NoneV => got.out = [status |-> "ok", value |-> fallback]

\* C20: sources of the getters. get_instructions returns the content of the file at
\* instructions_path whenever that path was resolved and exists, and returns
\* workflow_content only when no instructions path was resolved ("" when there is no
\* content either); get_checklist and get_template return the content of the file at
\* their path, or "" without a path, and never workflow_content.
C20_GetterSources ==
    LET wf == workflow.out.result IN
    /\ got.name = "get_instructions" =>
          C20_ReadsSlot("instructions_path",
                        IF TruthyV(DictGet(wf, "workflow_content"))
                        THEN wf["workflow_content"] ELSE StrV(""))
    /\ got.name = "get_checklist" => C20_ReadsSlot("checklist_path", StrV(""))
    /\ got.name = "get_template" => C20_ReadsSlot("template_path", StrV(""))

\* the entry names of the listing inputs in lexicographic (code point) order
C21_Sorted == <<".hidden", "README.md", "Zeta", "create-prd", "research">>

C21_Rank(n) == CHOOSE i \in 1..Len(C21_Sorted) : C21_Sorted[i] = n

\* C21: list_workflows(phaseDir) returns, in sorted order and without repetition,
\* exactly the names of the entries of the phase directory that are directories and do
\* not start with '.', and returns the empty list (no error) when the phase directory
\* does not exist.
C21_ListWorkflows ==
    got.name = "list_workflows" =>
        LET phase_dir == "workflows/" \o got.phase
            out == got.out
        IN  IF phase_dir \in DOMAIN wfs
            THEN /\ {out[i] : i \in 1..Len(out)}
                       = {n \in DOMAIN wfs[phase_dir].entries :
                             wfs[phase_dir].entries[n].kind = "dir" /\ Ch(n, 1) # "."}
                 /\ \A i, j \in 1..Len(out) : i < j => C21_Rank(out[i]) < C21_Rank(out[j])
            ELSE out = <<>>

\* C21 witness: a phase directory with two workflow directories, listed in sorted order
\* (upper case first)
C21_Witness ==
    /\ got.name = "list_workflows"
    /\ got.out = <<"Zeta", "research">>

-----------------------------------------------------------------------------
(* Claims about track selection.                                            *)

\* C22: get_bmad_track is a function of the lower-cased complexity label: 'simple'
\* gives quick_flow, 'standard' gives bmad_method and 'complex' gives enterprise in any
\* letter case, and every other label gives bmad_method.
C22_TrackOfLabel ==
    got.name = "get_bmad_track" =>
        got.out = CASE Lower(got.complexity) = "simple" -> "quick_flow"
                    [] Lower(got.complexity) = "standard" -> "bmad_method"
                    [] Lower(got.complexity) = "complex" -> "enterprise"
                    [] OTHER -> "bmad_method"

\* C22 witness: a mixed-case label of the complex tier selects the enterprise track
C22_Witness ==
    got.name = "get_bmad_track" /\ got.complexity = "CoMpLeX" /\ got.out = "enterprise"

-----------------------------------------------------------------------------
(* Claims about the phase methods.                                          *)

C23_Bounded ==
    ph.method # "none" =>
        /\ ph.calls <= MAX_RETRIES
        /\ (phase_pc = "returned" /\ ~ph.result.success) =>
              /\ ph.calls = MAX_RETRIES
              /\ Len(ph.result.errors) = MAX_RETRIES
              /\ \A i \in 1..MAX_RETRIES :
                    StartsWith(ph.result.errors[i], "Attempt " \o Decimal(i) \o ": ")

\* C23: every phase method ends (returns or raises) once its agent calls return, after
\* at most MAX_RETRIES calls of run_agent_fn; when it returns a failed PhaseResult it
\* has called the agent exactly MAX_RETRIES times and the error list has exactly
\* MAX_RETRIES entries, "Attempt 1: ..." to "Attempt MAX_RETRIES: ..." in this order.
C23_RetryLoop ==
    /\ (phase_pc = "awaiting") ~> (phase_pc \in {"returned", "raised"})
    /\ []C23_Bounded

\* C23 witness: story planning failed after three agent calls, with three messages
C23_Witness ==
    /\ phase_pc = "returned"
    /\ ph.method = "bmad_story_planning"
    /\ ph.calls = 3
    /\ ph.result = PhaseResult("bmad_story_planning", FALSE, <<>>,
                               <<"Attempt 1: BMAD story planning failed",
                                 "Attempt 2: BMAD story planning failed",
                                 "Attempt 3: BMAD story planning failed">>, 3)

\* the persona file of the method is missing / its workflow directory is missing
C24_PersonaMissing(m) == PHASE_AGENT_MAP[PhaseAgentKey[m]] \notin DOMAIN agents
C24_WorkflowMissing(m) == WorkflowDirOf(PhaseWorkflowKey[m], None) \notin DOMAIN wfs

\* C24: when the persona file or the workflow directory of a phase is missing, the
\* phase method does not abort and no exception leaves it: the missing piece is
\* replaced by an empty persona block / empty instructions, the agent is still invoked
\* (unless the output exists already) and the phase ends by returning a PhaseResult.
C24_MissingAbsorbed ==
    (/\ ph.method # "none"
     /\ C24_PersonaMissing(ph.method) \/ C24_WorkflowMissing(ph.method)) =>
        /\ phase_pc # "raised"
        /\ ph.calls >= 1 =>
              /\ C24_PersonaMissing(ph.method) => ph.persona_block = ""
              /\ C24_WorkflowMissing(ph.method) => ph.instructions = StrV("")
        /\ phase_pc = "returned" => ph.calls >= 1 \/ ph.result.retries = 0

\* the persona file or the workflow definition of the method fails YAML parsing
C25_Malformed(m) ==
    \/ /\ ~C24_PersonaMissing(m)
       /\ agents[PHASE_AGENT_MAP[PhaseAgentKey[m]]].form = "malformed"
    \/ /\ ~C24_WorkflowMissing(m)
       /\ "workflow.yaml" \in DOMAIN wfs[WorkflowDirOf(PhaseWorkflowKey[m], None)].entries
       /\ wfs[WorkflowDirOf(PhaseWorkflowKey[m], None)].yaml.form = "malformed"

\* C25: when a persona or workflow definition file fails YAML parsing during a phase,
\* the error does not leave the phase method: the phase treats it as a failed attempt
\* and ends by returning a PhaseResult.
C25_MalformedIsAttemptFailure ==
    (ph.method # "none" /\ C25_Malformed(ph.method)) => phase_pc # "raised"

-----------------------------------------------------------------------------
(* Claims about the story parser, continued.                                *)

\* the leading bullet marker of a bullet line: "- [ ] ", "- " or "* "
C26_Marker(stripped) ==
    IF StartsWith(stripped, "- [ ] ") THEN "- [ ] " ELSE SubSeq(stripped, 1, 2)

\* the bullet line without its leading marker
C26_Text(stripped) ==
    Strip(SubSeq(stripped, Len(C26_Marker(stripped)) + 1, Len(stripped)))

\* C26: when the parser reads a bullet line inside an acceptance-criteria section, the
\* criterion it records is the line text with only the leading bullet marker removed:
\* every later character is kept, also when the text begins with '[', ']', '*' or '-';
\* a bullet with no text after the marker is dropped, and a bullet line never goes to
\* the body of the story.
C26_BulletText ==
    [][(/\ pc = "loop" /\ pos' = pos + 1
        /\ CollectsBullet(ParserState, Strip(lines[pos + 1]))) =>
          /\ current_ac' = IF C26_Text(Strip(lines[pos + 1])) # ""
                           THEN Append(current_ac, C26_Text(Strip(lines[pos + 1])))
                           ELSE current_ac
          /\ current_body_lines' = current_body_lines]_vars

\* What the spec says of each sample line: a story heading, an excluded heading whose
\* text contains "acceptance", another excluded heading, or not a level-2/3 heading
C28_Kind ==
    [l \in SampleLines |->
        CASE l \in {"## Story One", "### User Acceptance"} -> "story"
          [] l = "### Acceptance Criteria" -> "acceptance"
          [] l = "### Tasks" -> "excluded"
          [] OTHER -> "line"]

\* the kind of the most recent level-2/3 heading among ls, "none" when there is none
RECURSIVE C28_LastHeading(_)
C28_LastHeading(ls) ==
    IF Len(ls) = 0 THEN "none"
    ELSE IF C28_Kind[ls[Len(ls)]] # "line" THEN C28_Kind[ls[Len(ls)]]
    ELSE C28_LastHeading(SubSeq(ls, 1, Len(ls) - 1))

\* the lines ls[i], i in S, in document order
RECURSIVE C27_Pick(_, _, _)
C27_Pick(ls, S, i) ==
    IF i > Len(ls) THEN <<>>
    ELSE (IF i \in S THEN <<ls[i]>> ELSE <<>>) \o C27_Pick(ls, S, i + 1)

\* line i of ls is recognized as an acceptance criterion: an inline marker line, or a
\* bullet whose most recent heading is an acceptance heading
C27_IsCriterion(ls, i) ==
    \/ ls[i] \in C4_InlineLines
    \/ ls[i] \in C4_BulletLines /\ C28_LastHeading(SubSeq(ls, 1, i - 1)) = "acceptance"

\* the number of story headings among the first i lines: the story open after line i
C27_StoryAt(ls, i) == Cardinality({j \in 1..i : C28_Kind[ls[j]] = "story"})

\* the lines of ls read while story k was open that are neither a level-2/3 heading nor
\* recognized as a criterion
C27_BodyOf(ls, k) ==
    C27_Pick(ls, {i \in 1..Len(ls) : /\ C27_StoryAt(ls, i) = k
                                     /\ C28_Kind[ls[i]] = "line"
                                     /\ ~C27_IsCriterion(ls, i)}, 1)

\* C27: the details of every subtask are the trimmed newline-join of exactly the lines
\* read while its story was open that are neither a level-2/3 heading nor recognized as
\* an acceptance criterion, in document order; lines after an excluded heading stay with
\* the story open before it, and no line is in both details and acceptance_criteria.
C27_DetailsAreBodyLines ==
    /\ pc = "done" =>
          \A k \in 1..Len(subtasks) :
              subtasks[k].details = Strip(Join(C27_BodyOf(lines, k), "\n"))
    /\ (pc = "loop" /\ current_heading # "") =>
          current_body_lines
              = C27_BodyOf(SubSeq(lines, 1, pos), C27_StoryAt(lines, pos))

\* C27 witness: a story with a body line, an excluded heading and a bullet after it that
\* is not a criterion: both lines are the details of the story
C27_Witness ==
    /\ pc = "done"
    /\ lines = <<"## Story One", "body", "### Tasks", "- item">>
    /\ Len(subtasks) = 1
    /\ subtasks[1].details = "body\n- item"
    /\ subtasks[1].acceptance_criteria = <<>>

\* C28: while the parser reads a document, in_ac_section is true exactly when the most
\* recent level-2/3 heading line was an excluded heading whose text contains
\* "acceptance": an excluded heading without it and every story heading make it false
\* again, and lines that are not level-2/3 headings never change it.
C28_SectionFlag ==
    pc = "loop" =>
        (in_ac_section <=> C28_LastHeading(SubSeq(lines, 1, pos)) = "acceptance")

\* C28 witness: after an acceptance heading, a "### Tasks" heading has switched the
\* section off and the bullet after it went to the body
C28_Witness ==
    /\ pc = "loop" /\ pos = 4
    /\ lines = <<"## Story One", "### Acceptance Criteria", "### Tasks", "- item">>
    /\ ~in_ac_section
    /\ current_ac = <<>>
    /\ current_body_lines = <<"- item">>

\* What the spec says of each criterion line: the criterion it yields
C29_CriterionOf == ("- item" :> "item") @@ ("Given x" :> "Given x")

\* the criteria of the lines of ls read while story k was open
C29_CriteriaOf(ls, k) ==
    LET from == C27_Pick(ls, {i \in 1..Len(ls) : /\ C27_StoryAt(ls, i) = k
                                                 /\ C28_Kind[ls[i]] = "line"
                                                 /\ C27_IsCriterion(ls, i)}, 1)
    IN  [i \in 1..Len(from) |-> C29_CriterionOf[from[i]]]

\* C29: parser state does not leak between stories: the acceptance criteria and the
\* details of every subtask come only from the lines after its own heading and before
\* the next story heading, and lines before the first story heading of the document
\* (body lines, acceptance bullets, inline criteria) appear in no subtask.
C29_NoLeak ==
    /\ pc = "done" =>
          \A k \in 1..Len(subtasks) :
              /\ subtasks[k].acceptance_criteria = C29_CriteriaOf(lines, k)
              /\ subtasks[k].details = Strip(Join(C27_BodyOf(lines, k), "\n"))
    /\ (pc = "loop" /\ current_heading # "") =>
          current_ac = C29_CriteriaOf(SubSeq(lines, 1, pos), C27_StoryAt(lines, pos))

\* C29 witness: criteria were collected before the first story heading, and the story
\* after them has none
C29_Witness ==
    /\ pc = "done"
    /\ lines = <<"### Acceptance Criteria", "- item", "Given x", "## Story One">>
    /\ Len(subtasks) = 1
    /\ subtasks[1].acceptance_criteria = <<>>
    /\ subtasks[1].details = ""

-----------------------------------------------------------------------------
(* Claims about the plan builder, continued.                                *)

\* The story headings of each sample text, in document order
C30_TitlesOf(text) ==
    CASE text = "## A\nbody" -> <<"A">>
      [] text = "## B\nx\n\ty\n### C\n" -> <<"B", "C">>
      [] text = "## D\n" -> <<"D">>
      [] text = "x\n## E\n## F\n## G\n## H\n## I" -> <<"E", "F", "G", "H", "I">>
      [] OTHER -> <<>>

\* The sample story files that are not named like a consolidated artifact, in sorted
\* filename order
C30_ScanOrder == <<"bmad/stories/auth.md", "bmad/stories/extra.md">>

RECURSIVE C30_TitlesOfFiles(_)
C30_TitlesOfFiles(paths) ==
    IF Len(paths) = 0 THEN <<>>
    ELSE (IF Head(paths) \in DOMAIN files THEN C30_TitlesOf(files[Head(paths)]) ELSE <<>>)
         \o C30_TitlesOfFiles(Tail(paths))

\* C30: the subtasks of the plan are those of the consolidated source followed by those
\* of each "*.md" file of bmad/stories in sorted filename order; a file named like a
\* consolidated artifact (stories.md, epics.md) is skipped by the scan, so that no
\* document is parsed twice, and the subtasks of a document keep their order.
C30_AssemblyOrder ==
    op.name = "stories_to_implementation_plan" =>
        [i \in 1..Len(op.ret.subtasks) |-> op.ret.subtasks[i].description]
            = C30_TitlesOf(op.source_content) \o C30_TitlesOfFiles(C30_ScanOrder)

\* C30 witness: a plan built from a consolidated stories.md, with epics.md beside it in
\* the stories directory, and two story files
C30_Witness ==
    /\ op.name = "stories_to_implementation_plan"
    /\ {"bmad/stories/stories.md", "bmad/stories/epics.md",
        "bmad/stories/auth.md", "bmad/stories/extra.md"} \subseteq DOMAIN files
    /\ files["bmad/stories/epics.md"] = "## B\nx\n\ty\n### C\n"
    /\ [i \in 1..Len(op.ret.subtasks) |-> op.ret.subtasks[i].description]
           = <<"A", "D", "E", "F", "G", "H", "I">>

-----------------------------------------------------------------------------
(* Claims about the phase methods, continued.                               *)

\* The files each phase checks at entry, and the phases that also check the plan file
C31_EntryFiles ==
    ("bmad_analysis" :> {"bmad/planning/product-brief.md"}) @@
    ("bmad_planning" :> {"bmad/planning/prd.md"}) @@
    ("bmad_solutioning" :> {"bmad/planning/architecture.md"}) @@
    ("bmad_prd_writing" :> {"bmad/planning/prd.md"}) @@
    ("bmad_architecture" :> {"bmad/planning/architecture.md"}) @@
    ("bmad_story_planning" :> {"bmad/stories/epics.md"}) @@
    ("bmad_quick_spec" :> {"spec.md"})

C31_ChecksPlan == {"bmad_solutioning", "bmad_story_planning", "bmad_quick_spec"}

\* the output files phase m checks at entry exist
C31_OutputsExist(m) ==
    /\ C31_EntryFiles[m] \subseteq DOMAIN files
    /\ m \in C31_ChecksPlan => plan_file.exists

\* a step that is a call of a phase method: the method is ph'.method
C31_IsCall == phase_pc \in {"idle", "returned", "raised"} /\ phase_pc' # "idle"

\* C31: skip when done. A phase called while the output files it checks at entry exist
\* returns success with retry count 0, makes no run_agent_fn call and writes or changes
\* no file or directory.
C31_SkipWhenDone ==
    [][(C31_IsCall /\ C31_OutputsExist(ph'.method)) =>
          /\ phase_pc' = "returned"
          /\ ph'.result.success
          /\ ph'.result.retries = 0
          /\ ph'.calls = 0
          /\ files' = files /\ dirs' = dirs /\ plan_file' = plan_file]_vars

\* C31 witness: bmad_solutioning returned at entry, architecture.md and the plan exist
C31_Witness ==
    /\ phase_pc = "returned"
    /\ ph.method = "bmad_solutioning"
    /\ ph.calls = 0
    /\ ph.result = PhaseResult("bmad_solutioning", TRUE,
                               <<"bmad/planning/architecture.md", "implementation_plan.json">>,
                               <<>>, 0)
    /\ "bmad/planning/architecture.md" \in DOMAIN files
    /\ plan_file.exists

\* a path of a result exists on disk
C33_OnDisk(path) ==
    IF path = "implementation_plan.json" THEN plan_file.exists ELSE path \in DOMAIN files

\* C32: re-run stability. After a phase method returned a successful PhaseResult, a call
\* of the same phase that directly follows (no file changed in between) takes the skip
\* path: it returns success without a run_agent_fn call.
C32_RerunSkips ==
    [][(/\ phase_pc = "returned" /\ ph.result.success
        /\ C31_IsCall /\ ph'.method = ph.method) =>
          /\ phase_pc' = "returned"
          /\ ph'.result.success
          /\ ph'.calls = 0]_vars

\* C33: whenever a phase method has returned a successful PhaseResult, every path of its
\* list of output files exists on disk.
C33_OutputsOnDisk ==
    (phase_pc = "returned" /\ ph.result.success) =>
        \A i \in 1..Len(ph.result.output_files) : C33_OnDisk(ph.result.output_files[i])

\* a step in which run_agent_fn returns to the phase method
C34_AgentReturned == phase_pc = "awaiting" /\ ph' # ph

\* C34: inside the retry loop a phase returns success only on an attempt whose agent
\* call reported success, and it calls save_artifact or stories_to_implementation_plan
\* only after such a call; an attempt whose agent call reported failure writes no file
\* and appends exactly one error message.
C34_SuccessOnlyAfterAgentSuccess ==
    [][C34_AgentReturned =>
          /\ (phase_pc' = "returned" /\ ph'.result.success) => ph'.success
          /\ ph'.api # <<>> => ph'.success
          /\ ~ph'.success =>
                /\ files' = files /\ dirs' = dirs /\ plan_file' = plan_file
                /\ Len(ph'.errors) = Len(ph.errors) + 1
                /\ SubSeq(ph'.errors, 1, Len(ph.errors)) = ph.errors]_vars

\* C34 witness: bmad_analysis failed once, then the agent reported success and the phase
\* saved the product brief from spec.md
C34_Witness ==
    /\ phase_pc = "returned"
    /\ ph.method = "bmad_analysis"
    /\ ph.success
    /\ ph.api = <<"save_artifact">>
    /\ ph.errors = <<"Attempt 1: BMAD analysis agent failed">>
    /\ ph.result = PhaseResult("bmad_analysis", TRUE, <<"bmad/planning/product-brief.md">>,
                               <<>>, 1)
    /\ "bmad/planning/product-brief.md" \in DOMAIN files

-----------------------------------------------------------------------------
(* Claims about the workflow resolver, continued.                           *)

\* C35: for every successful load_workflow call, the workflow_dir of the result is
\* root/phaseDir/workflowName and its instructions_path, checklist_path and
\* template_path are the values reference resolution computes, whatever top-level keys
\* the YAML definition holds, keys named like these four included.
C35_ResultKeys ==
    Loaded =>
        LET data == wfs[ResolveDir].yaml.data IN
        /\ workflow.out.result["workflow_dir"] = PathV("workflows/1-analysis/research")
        /\ workflow.out.result["instructions_path"]
              \in ResolveRef(wfs, ResolveDir, data, <<"instructions">>)
        /\ workflow.out.result["checklist_path"]
              \in ResolveRef(wfs, ResolveDir, data, <<"validation", "checklist">>)
        /\ workflow.out.result["template_path"]
              \in ResolveRef(wfs, ResolveDir, data, <<"template">>)

\* C36: every path load_workflow resolves names an entry directly inside the workflow
\* directory: its parent is workflow_dir and it is neither workflow_dir itself nor an
\* ancestor, also for reference values that end in "/" or are ".." or ".".
C36_InsideWorkflowDir ==
    Loaded =>
        \A k \in {"instructions_path", "checklist_path", "template_path"} :
            LET v == workflow.out.result[k] IN
            v.kind = "path" =>
                /\ PathParent(v.s) = "workflows/1-analysis/research"
                /\ PathName(v.s) \in DOMAIN wfs[ResolveDir].entries

====
